---- MODULE Spec2Model ----
(***************************************************************************)
(* Cold-Snipper-Bot: acquisition-and-triage pipeline.                      *)
(*                                                                         *)
(* Several state machines share this module:                               *)
(*   SpecRateLimiter  silos/pipeline.py  RateLimiter.wait_if_needed called *)
(*                    by several worker threads on a wall clock            *)
(*   SpecSequential   the same limiter called by one thread that navigates *)
(*                    after each admission (main's sequential url loop)    *)
(*   SpecRetry        silos/pipeline.py  retry_with_backoff                *)
(*   SpecCycle        main.py            main(): the cycle loop, the URL   *)
(*                    pool, extraction, deduplication and triage, with     *)
(*                    failing store accesses and extractions               *)
(*   SpecShutdown     main.py            main() under request_shutdown and *)
(*                    SIGINT                                               *)
(*   SpecPool         main.py, scraper.py  main() with the store writes of *)
(*                    the pool's workers                                   *)
(*   SpecPriority     main.py            main() with every value of the    *)
(*                    priority score                                       *)
(*   SpecExtract      main.py, scraper.py  the extraction of one target    *)
(*                    url: dispatch, admission, validation, navigation,    *)
(*                    retry, fallback                                      *)
(*   SpecSellerType   analysis.py, scraper.py  the seller-type heuristics  *)
(*   SpecCallJson     llm_integration.py  _call_json_with_retry            *)
(*   SpecCooldown     main.py            the sleep at the end of a cycle   *)
(*   SpecRecords      scraper.py         the records scrape returns        *)
(*   SpecSendAll      contacting.py      send_all and the logged status    *)
(*   SpecTargets      main.py            _build_target_urls                *)
(*   SpecFallback     analysis.py        the language-model fallback of    *)
(*                    agent_private_check                                  *)
(*   SpecConsent      browser_automation.py, scraper.py  the dismissal of  *)
(*                    the consent banner                                   *)
(*   SpecSession      scraper.py         the browser session of one scrape *)
(*                    call                                                 *)
(*   SpecQueue        email_sender.py    upsert_lead and get_viable_leads  *)
(*   SpecGenericExtract  data_scraper.py  extract_listings                 *)
(*   SpecLive         silos/pipeline.py  wait_if_needed under fair         *)
(*                    scheduling of its callers                            *)
(*   SpecReset        email_sender.py, gui.py  main() with the gui's       *)
(*                    reset_db beside it                                   *)
(* Each specification leaves the variables of the other parts untouched.   *)
(***************************************************************************)
EXTENDS Integers, Sequences, FiniteSets, TLC

VARIABLES
    \* ---- RateLimiter (silos/pipeline.py) ----
    clock,      \* time.time(), in seconds
    rpm,        \* RateLimiter.rpm
    counts,     \* RateLimiter._counts : domain -> list of admitted timestamps
    lock,       \* RateLimiter._lock : 0 when free, else the holding thread
    pc,         \* per thread: position inside wait_if_needed
    dom,        \* per thread: the domain argument of the running call
    wake,       \* per thread: earliest clock value at which time.sleep returns
    hist,       \* history: domain -> every timestamp ever appended
    call,       \* history: per thread, what the running call observed
    done,       \* history: the last completed call
    ncalls,     \* number of wait_if_needed calls started
    lastNav,    \* history: per thread, domain, time and admission time of
                \* its last navigation
    navGap,     \* history: when a thread navigates to the domain of its
                \* previous navigation, the time between the two navigation
                \* calls and between their two admissions
    \* ---- retry_with_backoff (silos/pipeline.py) ----
    r_pc,           \* position inside retry_with_backoff
    max_attempts,   \* argument
    initial_delay,  \* argument
    backoff,        \* argument
    attempt,        \* loop variable of `for attempt in range(max_attempts)`
    delay,          \* local
    last_exc,       \* local: 0 is None, n is the exception raised by call n of fn
    r_result,       \* what retry_with_backoff returned or raised
    r_log,          \* history: the outcome of every call of fn, in order
    r_requested,    \* history: the argument of every time.sleep call, in order
    r_slept,        \* history: total time actually slept
    \* ---- main() (main.py) and the lead store ----
    opc,              \* position of the orchestrator thread inside main()
    cycle,            \* number of the running cycle (iterations of `while True`)
    parallel_urls,    \* min(3, max(1, limits.parallel_urls))
    dry_run,          \* config["dry_run"]
    shutdown,         \* pipeline._shutdown_requested
    session_set,      \* main: session_set, the fingerprints seen in this cycle
    futures,          \* pool: url -> "none" | "pending" (queued) | "running" |
                      \* "saving" (the worker is inside save_to_db) |
                      \* "ok" | "raise"
    collected,        \* pool: the futures as_completed has already yielded
    scraper_results,  \* main: scraper_results, url -> raw_list ("none": no key)
    ui,               \* index of `for url in urls`
    listings,         \* main: listings of the current url
    li,               \* index of `for lst in listings`
    leads,            \* table leads (email_sender.upsert_lead)
    lead_logs,        \* table lead_logs (logging.log_lead)
    agent_logs,       \* table agent_logs (logging.log_agent_listing)
    contacts,         \* table contacts (email_sender.log_contact)
    lastDedup,        \* history: the last call of deduplicated
    passed,           \* history: listings that passed deduplication this cycle
    skipped,          \* history: listings skipped as duplicates this cycle
    triaged,          \* history: <<text, cycle>> of every listing that passed
    extraction,       \* history: url -> how its extraction ended this cycle
    faults,           \* history: number of failures injected so far (store
                      \* queries, log writes, extractions)
    abort,            \* history: why the cycle loop ended ("" while running)
    env,              \* the environment explored: "threads" (concurrent
                      \* callers of the rate limiter), "sequential" (one
                      \* caller that navigates after each admission), "retry",
                      \* "faults" (failing store accesses and extractions),
                      \* "signals" (request_shutdown and SIGINT), "pool" (the
                      \* workers' own store writes), "extract", "live" (the
                      \* callers of the rate limiter under fair scheduling)
    browser,          \* the orchestrator's browser session: "open" | "closed"
    closes,           \* number of close_browser calls on that session
    lastTriage,       \* history: what the last iteration of `for lst in
                      \* listings` did
    \* ---- the extraction of one target url (main.py, silos/scraper.py) ----
    x_url,            \* the url, as urlparse splits it: scheme and netloc
    x_use_scraper,    \* config["use_scraper_module"]
    x_path,           \* "sequential" (the else-branch of main's url loop) or
                      \* "pool" (_scrape_one_url in a worker)
    x_pc,             \* position inside the extraction
    x_attempt,        \* calls of scraper.scrape made by retry_with_backoff
    x_gotos,          \* history: number of page.goto(url) calls issued
    x_listings,       \* what the url yielded: "none" (not yet known),
                      \* "empty", "found"
    x_main,           \* position of main with respect to the url: "pool"
                      \* (the as_completed loop), "pool_exit", "urls" (the
                      \* `for url in urls` loop reaches it), "dispatch",
                      \* "triage", "ended"
    x_shutdown,       \* pipeline._shutdown_requested
    x_in_results,     \* url in scraper_results
    x_admits,         \* history: the wait_if_needed calls made for the url:
                      \* who dispatched it and the key of the call
    x_delays,         \* history: the time.sleep calls of the running
                      \* retry_with_backoff
    \* ---- one call of a function of the silos ----
    f_name,           \* the function called
    f_arg,            \* its arguments and the answers of what it calls
    f_ret,            \* what it returned or raised, and the calls it made
    f_pc              \* "off" | "ready" | "done"

rlVars == <<clock, rpm, counts, lock, pc, dom, wake, hist, call, done, ncalls,
           lastNav, navGap>>

rtVars == <<r_pc, max_attempts, initial_delay, backoff, attempt, delay, last_exc,
            r_result, r_log, r_requested, r_slept>>

cyVars == <<opc, cycle, parallel_urls, dry_run, shutdown, session_set, futures,
            collected, scraper_results, ui, listings, li, leads, lead_logs,
            agent_logs, contacts, lastDedup, passed, skipped, triaged,
            extraction, faults, abort, env, browser, closes, lastTriage>>

shVars == <<env, browser, closes>>

exVars == <<x_url, x_use_scraper, x_path, x_pc, x_attempt, x_gotos, x_listings,
            x_main, x_shutdown, x_in_results, x_admits, x_delays>>

fnVars == <<f_name, f_arg, f_ret, f_pc>>

vars == <<rlVars, rtVars, cyVars, exVars, fnVars>>

----------------------------------------------------------------------------
(* RateLimiter                                                             *)

NumThreads == 2
MaxRpm == 2
MaxCalls == 3
MaxTime == 120
TickLen == 20

Window == 60

Threads == 1..NumThreads
Domains == {"athome.lu", "immotop.lu"}

NoNav == [dom |-> "", at |-> 0, adm |-> 0]

NoGap == [valid |-> FALSE, nav |-> 0, adm |-> 0]

NoCall == [over |-> FALSE, earliest |-> 0, prior |-> 0, slept |-> FALSE, at |-> 0, dom |-> "", valid |-> FALSE]

\* RateLimiter.__init__ : self.rpm = max(1, requests_per_minute)
ClampRpm(requests_per_minute) ==
    IF requests_per_minute < 1 THEN 1 ELSE requests_per_minute

\* RateLimiter._trim : keep the timestamps t > now - 60.0
Trim(times, now) == SelectSeq(times, LAMBDA t: t > now - Window)

\* a limiter that waits a window longer than the oldest entry needs
SleepUntil_TwoWindows(times, now) == times[1] + Window + Window - now

\* a limiter that never waits for the oldest entry to expire
SleepUntil_Zero(times, now) == 0

\* wait_if_needed : sleep_until = times[0] + 60.0 - now
SleepUntil(times, now) == times[1] + Window - now

\* a budget test that lets one request too many through
AtBudget_OffByOne(times) == Len(times) > rpm

\* wait_if_needed : if len(times) >= self.rpm
AtBudget(times) == Len(times) >= rpm

\* the admissions of the history that lie in the window (now - 60, now]
InWindow(h, now) == SelectSeq(h, LAMBDA t: t > now - Window /\ t <= now)

RateLimiterIdle ==
    /\ clock = 0
    /\ rpm = 1
    /\ counts = [d \in Domains |-> <<>>]
    /\ lock = 0
    /\ pc = [t \in Threads |-> "idle"]
    /\ dom = [t \in Threads |-> "athome.lu"]
    /\ wake = [t \in Threads |-> 0]
    /\ hist = [d \in Domains |-> <<>>]
    /\ call = [t \in Threads |-> NoCall]
    /\ done = NoCall
    /\ ncalls = 0
    /\ lastNav = [t \in Threads |-> NoNav]
    /\ navGap = NoGap

RetryIdle ==
    /\ r_pc = "off"
    /\ max_attempts = 0
    /\ initial_delay = 0
    /\ backoff = 0
    /\ attempt = 0
    /\ delay = 0
    /\ last_exc = 0
    /\ r_result = [kind |-> "none", val |-> 0]
    /\ r_log = <<>>
    /\ r_requested = <<>>
    /\ r_slept = 0

NoDedup == [valid |-> FALSE, h |-> <<>>, inSession |-> FALSE, seen |-> FALSE,
            queried |-> FALSE, dup |-> FALSE, before |-> {}, after |-> {}]

\* no iteration of the listing loop has run yet
NoTriage == [valid |-> FALSE, kind |-> "", late |-> FALSE, is_private |-> FALSE,
             confidence |-> 0, calls |-> {}, log_failed |-> FALSE,
             leads0 |-> 0, lead_logs0 |-> 0, agent_logs0 |-> 0]

CycleIdle ==
    /\ opc = "off"
    /\ cycle = 0
    /\ parallel_urls = 1
    /\ dry_run = TRUE
    /\ shutdown = FALSE
    /\ session_set = {}
    /\ futures = <<>>
    /\ collected = {}
    /\ scraper_results = <<>>
    /\ ui = 0
    /\ listings = <<>>
    /\ li = 0
    /\ leads = <<>>
    /\ lead_logs = <<>>
    /\ agent_logs = <<>>
    /\ contacts = {}
    /\ lastDedup = NoDedup
    /\ passed = <<>>
    /\ skipped = <<>>
    /\ triaged = {}
    /\ extraction = <<>>
    /\ faults = 0
    /\ abort = ""
    /\ browser = "closed"
    /\ closes = 0
    /\ lastTriage = NoTriage

NoArg == [none |-> TRUE]

\* no function call under way
FnIdle ==
    /\ f_name = ""
    /\ f_arg = NoArg
    /\ f_ret = NoArg
    /\ f_pc = "off"

\* no extraction under way
ExtractIdle ==
    /\ x_url = [scheme |-> "https", netloc |-> "example.com"]
    /\ x_use_scraper = TRUE
    /\ x_path = "sequential"
    /\ x_pc = "off"
    /\ x_attempt = 0
    /\ x_gotos = 0
    /\ x_listings = "none"
    /\ x_main = "off"
    /\ x_shutdown = FALSE
    /\ x_in_results = FALSE
    /\ x_admits = <<>>
    /\ x_delays = <<>>

\* RateLimiter(requests_per_minute=rpm), no call made yet
InitLimiter(e) ==
    /\ RetryIdle
    /\ CycleIdle
    /\ ExtractIdle
    /\ FnIdle
    /\ env = e
    /\ clock = 0
    /\ rpm \in {ClampRpm(r) : r \in 0..MaxRpm}
    /\ counts = [d \in Domains |-> <<>>]
    /\ lock = 0
    /\ pc = [t \in Threads |-> "idle"]
    /\ dom = [t \in Threads |-> "athome.lu"]
    /\ wake = [t \in Threads |-> 0]
    /\ hist = [d \in Domains |-> <<>>]
    /\ call = [t \in Threads |-> NoCall]
    /\ done = NoCall
    /\ ncalls = 0
    /\ lastNav = [t \in Threads |-> NoNav]
    /\ navGap = NoGap

InitRateLimiter == InitLimiter("threads")

InitSequential == InitLimiter("sequential")

\* a worker thread enters wait_if_needed(domain) and reaches `with self._lock`
Call(t, d) ==
    /\ pc[t] = "idle"
    /\ env = "sequential" => t = 1
    /\ env = "live" => d = "athome.lu"
    /\ ncalls < MaxCalls
    /\ ncalls' = ncalls + 1
    /\ pc' = [pc EXCEPT ![t] = "wait_lock"]
    /\ dom' = [dom EXCEPT ![t] = d]
    /\ call' = [call EXCEPT ![t] = NoCall]
    /\ UNCHANGED <<clock, rpm, counts, lock, wake, hist, done, lastNav, navGap>>
    /\ UNCHANGED <<rtVars, cyVars, exVars, fnVars>>

\* a limiter without mutual exclusion: the `with` block is entered at once
LockFree_Unguarded(t) == TRUE

\* threading.Lock: a thread enters the `with` block only when the lock is free
LockFree(t) == lock = 0

\* `with self._lock:` acquired
Acquire(t) ==
    /\ pc[t] = "wait_lock"
    /\ LockFree(t)
    /\ lock' = t
    /\ pc' = [pc EXCEPT ![t] = "locked"]
    /\ UNCHANGED <<clock, rpm, counts, dom, wake, hist, call, done, ncalls, lastNav, navGap>>
    /\ UNCHANGED <<rtVars, cyVars, exVars, fnVars>>

\* now = time.time(); self._trim(domain, now); the budget test; the start of
\* time.sleep(sleep_until), which returns no earlier than now + sleep_until
CheckBudget(t) ==
    /\ pc[t] = "locked"
    /\ LET d == dom[t]
           times == Trim(counts[d], clock)
           seen == InWindow(hist[d], clock)
       IN /\ counts' = [counts EXCEPT ![d] = times]
          /\ call' = [call EXCEPT ![t] =
                 [over |-> Len(seen) >= rpm,
                  earliest |-> IF Len(seen) > 0 THEN seen[1] ELSE 0,
                  prior |-> Len(hist[d]),
                  slept |-> FALSE, at |-> 0, dom |-> d, valid |-> FALSE]]
          /\ IF AtBudget(times)
             THEN IF SleepUntil(times, clock) > 0
                  THEN /\ wake' = [wake EXCEPT ![t] = clock + SleepUntil(times, clock)]
                       /\ pc' = [pc EXCEPT ![t] = "sleeping"]
                  ELSE /\ pc' = [pc EXCEPT ![t] = "retrim"]
                       /\ UNCHANGED wake
             ELSE /\ pc' = [pc EXCEPT ![t] = "append"]
                  /\ UNCHANGED wake
    /\ UNCHANGED <<clock, rpm, lock, dom, hist, done, ncalls, lastNav, navGap>>
    /\ UNCHANGED <<rtVars, cyVars, exVars, fnVars>>

\* time.sleep(sleep_until) returns: the lock was held all along
WakeUp(t) ==
    /\ pc[t] = "sleeping"
    /\ clock >= wake[t]
    /\ pc' = [pc EXCEPT ![t] = "retrim"]
    /\ call' = [call EXCEPT ![t].slept = TRUE]
    /\ UNCHANGED <<clock, rpm, counts, lock, dom, wake, hist, done, ncalls, lastNav, navGap>>
    /\ UNCHANGED <<rtVars, cyVars, exVars, fnVars>>

\* self._trim(domain, time.time()) after the sleep
ReTrim(t) ==
    /\ pc[t] = "retrim"
    /\ counts' = [counts EXCEPT ![dom[t]] = Trim(counts[dom[t]], clock)]
    /\ pc' = [pc EXCEPT ![t] = "append"]
    /\ UNCHANGED <<clock, rpm, lock, dom, wake, hist, call, done, ncalls, lastNav, navGap>>
    /\ UNCHANGED <<rtVars, cyVars, exVars, fnVars>>

\* self._counts.setdefault(domain, []).append(time.time()); the `with` block
\* ends and releases the lock
Admit(t) ==
    /\ pc[t] = "append"
    /\ counts' = [counts EXCEPT ![dom[t]] = Append(counts[dom[t]], clock)]
    /\ hist' = [hist EXCEPT ![dom[t]] = Append(hist[dom[t]], clock)]
    /\ done' = [call[t] EXCEPT !.at = clock, !.valid = TRUE]
    /\ call' = [call EXCEPT ![t] = NoCall]
    /\ wake' = [wake EXCEPT ![t] = 0]
    /\ lock' = IF lock = t THEN 0 ELSE lock
    /\ pc' = [pc EXCEPT ![t] = IF env = "sequential" THEN "admitted" ELSE "idle"]
    /\ UNCHANGED <<clock, rpm, dom, ncalls, lastNav, navGap>>
    /\ UNCHANGED <<rtVars, cyVars, exVars, fnVars>>

\* the caller goes on after wait_if_needed returned: get_scraper_for_source,
\* retry_with_backoff, Scraper.scrape, and there self.goto(url), the
\* navigation, at whatever time the thread gets to it
Navigate(t) ==
    /\ pc[t] = "admitted"
    /\ pc' = [pc EXCEPT ![t] = "idle"]
    /\ lastNav' = [lastNav EXCEPT ![t] =
                       [dom |-> dom[t], at |-> clock, adm |-> done.at]]
    /\ navGap' = IF lastNav[t].dom = dom[t]
                 THEN [valid |-> TRUE, nav |-> clock - lastNav[t].at,
                       adm |-> done.at - lastNav[t].adm]
                 ELSE NoGap
    /\ UNCHANGED <<clock, rpm, counts, lock, dom, wake, hist, call, done, ncalls>>
    /\ UNCHANGED <<rtVars, cyVars, exVars, fnVars>>

\* the wall clock advances
Tick ==
    /\ clock + TickLen <= MaxTime
    /\ clock' = clock + TickLen
    /\ UNCHANGED <<rpm, counts, lock, pc, dom, wake, hist, call, done, ncalls, lastNav, navGap>>
    /\ UNCHANGED <<rtVars, cyVars, exVars, fnVars>>

NextRateLimiter ==
    \/ \E t \in Threads, d \in Domains : Call(t, d)
    \/ \E t \in Threads : Acquire(t)
    \/ \E t \in Threads : CheckBudget(t)
    \/ \E t \in Threads : WakeUp(t)
    \/ \E t \in Threads : ReTrim(t)
    \/ \E t \in Threads : Admit(t)
    \/ Tick

SpecRateLimiter == InitRateLimiter /\ [][NextRateLimiter]_vars

\* main's sequential url loop: one thread calls wait_if_needed and then
\* navigates, url after url
NextSequential ==
    \/ NextRateLimiter
    \/ \E t \in Threads : Navigate(t)

SpecSequential == InitSequential /\ [][NextSequential]_vars

----------------------------------------------------------------------------
(* retry_with_backoff                                                      *)

MaxAttemptsArg == 3
MaxInitialDelay == 2
MaxBackoff == 3
MaxOvershoot == 1

Values == {"v1", "v2"}

RECURSIVE Pow(_, _)
Pow(b, n) == IF n = 0 THEN 1 ELSE b * Pow(b, n - 1)

\* b^0 + b^1 + ... + b^(n-1)
RECURSIVE GeomSum(_, _)
GeomSum(b, n) == IF n = 0 THEN 0 ELSE Pow(b, n - 1) + GeomSum(b, n - 1)

\* a loop that gives up one attempt early
MoreAttempts_OneShort(a, m) == a < m - 1

\* for attempt in range(max_attempts)
MoreAttempts(a, m) == a < m

\* a wrapper that keeps the delay constant
NextDelay_Constant(d, b) == d

\* delay *= backoff
NextDelay(d, b) == d * b

\* if attempt < max_attempts - 1: sleep before the next attempt
SleepsAfter(a, m) == a < m - 1

\* the state after `last_exc = None; delay = initial_delay`
InitRetry ==
    /\ RateLimiterIdle
    /\ CycleIdle
    /\ ExtractIdle
    /\ FnIdle
    /\ env = "retry"
    /\ max_attempts \in 0..MaxAttemptsArg
    /\ initial_delay \in 1..MaxInitialDelay
    /\ backoff \in 1..MaxBackoff
    /\ r_pc = "loop"
    /\ attempt = 0
    /\ delay = initial_delay
    /\ last_exc = 0
    /\ r_result = [kind |-> "none", val |-> 0]
    /\ r_log = <<>>
    /\ r_requested = <<>>
    /\ r_slept = 0

\* a wrapper that records the value but goes on with the loop
CallReturns_KeepsCalling(v) ==
    /\ r_pc = "loop"
    /\ MoreAttempts(attempt, max_attempts)
    /\ r_log' = Append(r_log, v)
    /\ r_result' = [kind |-> "return", val |-> v]
    /\ IF attempt < max_attempts - 1
       THEN r_pc' = "loop" /\ attempt' = attempt + 1
       ELSE r_pc' = "returned" /\ UNCHANGED attempt
    /\ UNCHANGED <<max_attempts, initial_delay, backoff, delay, last_exc,
                   r_requested, r_slept>>
    /\ UNCHANGED <<rlVars, cyVars, exVars, fnVars>>

\* try: return fn()            -- fn returns v
CallReturns(v) ==
    /\ r_pc = "loop"
    /\ MoreAttempts(attempt, max_attempts)
    /\ r_log' = Append(r_log, v)
    /\ r_result' = [kind |-> "return", val |-> v]
    /\ r_pc' = "returned"
    /\ UNCHANGED <<max_attempts, initial_delay, backoff, attempt, delay, last_exc,
                   r_requested, r_slept>>
    /\ UNCHANGED <<rlVars, cyVars, exVars, fnVars>>

\* except Exception as e: last_exc = e   -- fn raises; the exception object of
\* call n is identified by n
CallRaises ==
    /\ r_pc = "loop"
    /\ MoreAttempts(attempt, max_attempts)
    /\ r_log' = Append(r_log, "raise")
    /\ last_exc' = Len(r_log) + 1
    /\ IF SleepsAfter(attempt, max_attempts)
       THEN r_pc' = "sleep" /\ UNCHANGED attempt
       ELSE r_pc' = "loop" /\ attempt' = attempt + 1
    /\ UNCHANGED <<max_attempts, initial_delay, backoff, delay, r_result,
                   r_requested, r_slept>>
    /\ UNCHANGED <<rlVars, cyVars, exVars, fnVars>>

\* time.sleep(delay); delay *= backoff   -- sleep lasts at least `delay`
RetrySleep(over) ==
    /\ r_pc = "sleep"
    /\ r_requested' = Append(r_requested, delay)
    /\ r_slept' = r_slept + delay + over
    /\ delay' = NextDelay(delay, backoff)
    /\ attempt' = attempt + 1
    /\ r_pc' = "loop"
    /\ UNCHANGED <<max_attempts, initial_delay, backoff, last_exc, r_result, r_log>>
    /\ UNCHANGED <<rlVars, cyVars, exVars, fnVars>>

\* raise last_exc   -- `raise None` is a TypeError
RaiseLast ==
    /\ r_pc = "loop"
    /\ ~MoreAttempts(attempt, max_attempts)
    /\ r_result' = IF last_exc = 0
                   THEN [kind |-> "TypeError", val |-> 0]
                   ELSE [kind |-> "raise", val |-> last_exc]
    /\ r_pc' = "raised"
    /\ UNCHANGED <<max_attempts, initial_delay, backoff, attempt, delay, last_exc,
                   r_log, r_requested, r_slept>>
    /\ UNCHANGED <<rlVars, cyVars, exVars, fnVars>>

NextRetry ==
    \/ \E v \in Values : CallReturns(v)
    \/ CallRaises
    \/ \E over \in 0..MaxOvershoot : RetrySleep(over)
    \/ RaiseLast

SpecRetry == InitRetry /\ [][NextRetry]_vars

----------------------------------------------------------------------------
(* main(): the cycle loop, extraction, deduplication and triage            *)

MaxCycles == 2
MaxParallelCfg == 2
MaxFaults == 1

MinConfidence == 6
AirbnbMinRating == 6
RawPrivateConfidence == 8
RawAgentConfidence == 2
MaxWorkers == 3

\* strings are sequences of one-character strings
IsSpace(c) == c = " "

RECURSIVE LStrip(_)
LStrip(s) == IF s # <<>> /\ IsSpace(Head(s)) THEN LStrip(Tail(s)) ELSE s

RECURSIVE RStrip(_)
RStrip(s) ==
    IF s # <<>> /\ IsSpace(s[Len(s)]) THEN RStrip(SubSeq(s, 1, Len(s) - 1)) ELSE s

\* str.strip()
Strip(s) == RStrip(LStrip(s))

\* hashlib.sha256(...).hexdigest(): the digest stands for its input, no
\* two inputs collide
Sha256(s) == <<"sha256">> \o s

\* a fingerprint text that also depends on the record's url
ListingText_WithUrl(r) == Strip(r.description \o <<" ">> \o r.title) \o <<r.url>>

\* "text": ((r.get("description") or "") + " " + (r.get("title") or "")).strip()
ListingText(r) == Strip(r.description \o <<" ">> \o r.title)

U_ATHOME == "https://www.athome.lu/buy"
U_IMMOTOP == "https://www.immotop.lu/list"
U_GENERIC == "https://example.com/ads"

\* urls = _build_target_urls(config)
Urls == <<U_ATHOME, U_IMMOTOP, U_GENERIC>>

UrlSet == {Urls[i] : i \in 1..Len(Urls)}

\* scraper._infer_source_from_url
InferSource(u) ==
    CASE u = U_ATHOME -> "athome"
      [] u = U_IMMOTOP -> "immotop"
      [] OTHER -> "generic"

\* config.get("use_scraper_module", True)
UseScraperModule == TRUE

\* use_scraper and source_type != "generic": the url has a dedicated extractor
Dedicated(u) == UseScraperModule /\ InferSource(u) # "generic"

\* scraper_urls = [u for u in urls if ...]
ScraperUrls == {u \in UrlSet : Dedicated(u)}

\* parallel_urls = min(3, max(1, int(limits.get("parallel_urls", 1))))
ClampParallel(n) == IF n < 1 THEN 1 ELSE IF n > MaxWorkers THEN MaxWorkers ELSE n

NoRaw == [present |-> FALSE, title |-> <<>>, description |-> <<>>, url |-> "",
          source |-> "", is_private |-> FALSE, email |-> ""]

\* the records a dedicated extractor's scrape(url) returns
ScrapePage(u) ==
    CASE u = U_ATHOME ->
           << [present |-> TRUE, title |-> <<"a">>, description |-> <<"b">>,
               url |-> "https://www.athome.lu/1", source |-> "athome",
               is_private |-> TRUE, email |-> "owner@x.lu"],
              [present |-> TRUE, title |-> <<"b">>, description |-> <<>>,
               url |-> "https://www.athome.lu/2", source |-> "athome",
               is_private |-> FALSE, email |-> ""] >>
      [] u = U_IMMOTOP ->
           << [present |-> TRUE, title |-> <<"a">>, description |-> <<"b">>,
               url |-> "https://www.immotop.lu/9?ref=q", source |-> "immotop",
               is_private |-> TRUE, email |-> "owner@x.lu"] >>
      [] OTHER -> <<>>

\* what extract_listings(page, selector) returns after scroll_and_navigate(url)
GenericPage(u) ==
    CASE u = U_GENERIC ->
           << [text |-> <<"b">>, url |-> "https://example.com/ads/7",
               raw |-> NoRaw] >>
      [] u = U_ATHOME ->
           << [text |-> <<"b", " ", "a">>, url |-> U_ATHOME, raw |-> NoRaw] >>
      [] OTHER -> <<>>

\* listings = [{"text": ..., "url": r.get("url", ""), "_scraper_raw": r} ...]
ToListings(raw_list) ==
    [i \in 1..Len(raw_list) |->
        [text |-> ListingText(raw_list[i]), url |-> raw_list[i].url,
         raw |-> raw_list[i]]]

\* the outputs of extract_listing_structured (is_private, confidence, contact)
StructuredOutputs ==
    { [is_private |-> FALSE, confidence |-> 5, email |-> ""],
      [is_private |-> TRUE, confidence |-> 8, email |-> "seller@y.lu"],
      [is_private |-> TRUE, confidence |-> 8, email |-> ""],
      [is_private |-> TRUE, confidence |-> 3, email |-> "seller@y.lu"] }

\* the ratings is_airbnb_viable returns
Ratings == {3, 8}

NoResult == [has |-> FALSE, raw_list |-> <<>>]

\* a query whose failure answers True
seen_listing_hash_FailClosed(logs, h, dbOk) ==
    ~dbOk \/ \E i \in 1..Len(logs) : logs[i].listing_hash = h

\* logging.seen_listing_hash: any failure of the query answers False
seen_listing_hash(logs, h, dbOk) ==
    dbOk /\ \E i \in 1..Len(logs) : logs[i].listing_hash = h

\* a deduplicator that asks the store before the session set
deduplicated_StoreFirst(text, logs, session, dbOk) ==
    LET h == Sha256(text) IN
    IF seen_listing_hash(logs, h, dbOk)
    THEN [dup |-> TRUE, session |-> session, queried |-> TRUE]
    ELSE IF h \in session
         THEN [dup |-> TRUE, session |-> session, queried |-> TRUE]
         ELSE [dup |-> FALSE, session |-> session \cup {h}, queried |-> TRUE]

\* analysis.deduplicated
deduplicated(text, logs, session, dbOk) ==
    LET h == Sha256(text) IN
    IF h \in session
    THEN [dup |-> TRUE, session |-> session, queried |-> FALSE]
    ELSE IF seen_listing_hash(logs, h, dbOk)
         THEN [dup |-> TRUE, session |-> session, queried |-> TRUE]
         ELSE [dup |-> FALSE, session |-> session \cup {h}, queried |-> TRUE]

\* failures are injected only in the "faults" environment
FaultBudget == IF env = "faults" THEN MaxFaults ELSE 0

\* main() up to `try: while True:` (init_db, init_browser, RateLimiter, the
\* SIGINT handler, parallel_urls)
InitMain(e) ==
    /\ RateLimiterIdle
    /\ RetryIdle
    /\ ExtractIdle
    /\ FnIdle
    /\ opc = "top"
    /\ cycle = 0
    /\ parallel_urls \in {ClampParallel(n) : n \in 0..MaxParallelCfg}
    /\ dry_run \in BOOLEAN
    /\ shutdown = FALSE
    /\ session_set = {}
    /\ futures = [u \in UrlSet |-> "none"]
    /\ collected = {}
    /\ scraper_results = [u \in UrlSet |-> NoResult]
    /\ ui = 1
    /\ listings = <<>>
    /\ li = 1
    /\ leads = <<>>
    /\ lead_logs = <<>>
    /\ agent_logs = <<>>
    /\ contacts = {}
    /\ lastDedup = NoDedup
    /\ passed = <<>>
    /\ skipped = <<>>
    /\ triaged = {}
    /\ extraction = [u \in UrlSet |-> "none"]
    /\ faults = 0
    /\ abort = ""
    /\ env = e
    /\ browser = "open"
    /\ closes = 0
    /\ lastTriage = NoTriage

InitCycle == InitMain("faults")

InitShutdown == InitMain("signals")

storeVars == <<leads, lead_logs, agent_logs, contacts>>
triageHist == <<lastDedup, passed, skipped, triaged, lastTriage>>

\* a close_browser that lets the errors of closing a closed session escape
close_browser_Unguarded(b) == [state |-> "closed", raised |-> b = "closed"]

\* browser_automation.close_browser: context.close(), browser.close() and
\* playwright.stop(), each inside its own try/except Exception: pass
close_browser(b) == [state |-> "closed", raised |-> FALSE]

\* one call close_browser(playwright_instance, browser, context) by main
CloseSession ==
    /\ browser' = close_browser(browser).state
    /\ closes' = closes + 1
    /\ UNCHANGED env

\* pipeline.request_shutdown(), called from another thread
RequestShutdown ==
    /\ env = "signals"
    /\ opc \notin {"off", "closed", "raised", "exiting", "exited"}
    /\ ~shutdown
    /\ shutdown' = TRUE
    /\ UNCHANGED <<opc, cycle, parallel_urls, dry_run, session_set, futures,
                   collected, scraper_results, ui, listings, li, extraction, abort>>
    /\ UNCHANGED <<storeVars, triageHist, faults>>
    /\ UNCHANGED <<rlVars, rtVars, shVars, exVars, fnVars>>

\* while True: if is_shutdown_requested(): break; session_set = set();
\* urls = _build_target_urls(config); scraper_results = {}; submit the pool
CycleStart ==
    /\ opc = "top"
    /\ IF shutdown
       THEN /\ opc' = "closed"
            /\ abort' = "shutdown"
            /\ CloseSession
            /\ UNCHANGED <<cycle, session_set, futures, collected, scraper_results,
                           ui, listings, li, passed, skipped, extraction>>
       ELSE /\ cycle < MaxCycles
            /\ cycle' = cycle + 1
            /\ session_set' = {}
            /\ scraper_results' = [u \in UrlSet |-> NoResult]
            /\ collected' = {}
            /\ passed' = <<>>
            /\ skipped' = <<>>
            /\ extraction' = [u \in UrlSet |-> "none"]
            /\ ui' = 1
            /\ listings' = <<>>
            /\ li' = 1
            /\ IF parallel_urls > 1 /\ ScraperUrls # {}
               THEN /\ futures' = [u \in UrlSet |->
                                      IF u \in ScraperUrls THEN "pending" ELSE "none"]
                    /\ opc' = "pool"
               ELSE /\ futures' = [u \in UrlSet |-> "none"]
                    /\ opc' = "urls"
            /\ UNCHANGED abort
            /\ UNCHANGED shVars
    /\ UNCHANGED <<parallel_urls, dry_run, shutdown, lastDedup, triaged, lastTriage, faults>>
    /\ UNCHANGED storeVars
    /\ UNCHANGED <<rlVars, rtVars, exVars, fnVars>>

\* the positions of main at which the pool's worker threads are alive: the
\* as_completed loop, the exit of `with ThreadPoolExecutor(...)`, and the
\* same exit reached by the SystemExit of the SIGINT handler
PoolAlive == opc \in {"pool", "pool_exit", "exiting"}

\* a worker thread takes the queued work item of u off the executor's queue
\* and calls _scrape_one_url(u, config, rate_limiter); nothing on the way
\* reads the shutdown flag
WorkerStart(u) ==
    /\ PoolAlive
    /\ futures[u] = "pending"
    /\ Cardinality({v \in UrlSet : futures[v] \in {"running", "saving"}})
           < parallel_urls
    /\ futures' = [futures EXCEPT ![u] = "running"]
    /\ UNCHANGED <<opc, cycle, parallel_urls, dry_run, shutdown, session_set,
                   collected, scraper_results, ui, listings, li, extraction, abort>>
    /\ UNCHANGED <<storeVars, triageHist, faults>>
    /\ UNCHANGED <<rlVars, rtVars, shVars, exVars, fnVars>>

\* Scraper.scrape in a pool worker, live mode: `else: save_to_db(listings,
\* db_path)` opens the database file of the lead store and writes the table
\* scraped_listings
WorkerSave(u) ==
    /\ env = "pool"
    /\ PoolAlive
    /\ futures[u] = "running"
    /\ ~dry_run
    /\ futures' = [futures EXCEPT ![u] = "saving"]
    /\ UNCHANGED <<opc, cycle, parallel_urls, dry_run, shutdown, session_set,
                   collected, scraper_results, ui, listings, li, extraction, abort>>
    /\ UNCHANGED <<storeVars, triageHist, faults>>
    /\ UNCHANGED <<rlVars, rtVars, shVars, exVars, fnVars>>

\* a pool worker runs _scrape_one_url(u, ...) to its end: rate limit, scraper,
\* retry_with_backoff(scrape); it returns (url, raw_list) or raises
WorkerDone(u, out) ==
    /\ PoolAlive
    /\ futures[u] \in {"running", "saving"}
    /\ (env = "pool" /\ ~dry_run /\ out = "ok") => futures[u] = "saving"
    /\ futures' = [futures EXCEPT ![u] = out]
    /\ UNCHANGED <<opc, cycle, parallel_urls, dry_run, shutdown, session_set,
                   collected, scraper_results, ui, listings, li, extraction, abort>>
    /\ out = "raise" => faults < FaultBudget
    /\ faults' = faults + (IF out = "raise" THEN 1 ELSE 0)
    /\ UNCHANGED <<storeVars, triageHist>>
    /\ UNCHANGED <<rlVars, rtVars, shVars, exVars, fnVars>>

\* a collecting loop without the try/except around fut.result()
Collect_NoCatch(u) ==
    /\ opc = "pool"
    /\ u \notin collected
    /\ futures[u] \in {"ok", "raise"}
    /\ IF shutdown
       THEN /\ opc' = "pool_exit"
            /\ UNCHANGED <<collected, scraper_results, extraction, abort>>
       ELSE /\ collected' = collected \cup {u}
            /\ scraper_results' = [scraper_results EXCEPT ![u] =
                   IF futures[u] = "ok"
                   THEN [has |-> TRUE, raw_list |-> ScrapePage(u)]
                   ELSE scraper_results[u]]
            /\ extraction' = [extraction EXCEPT ![u] =
                   IF futures[u] = "ok" THEN "pool_ok" ELSE "pool_failed"]
            /\ abort' = IF futures[u] = "ok" THEN abort ELSE "extraction"
            /\ opc' = IF futures[u] = "raise" THEN "error"
                      ELSE IF collected \cup {u} = ScraperUrls THEN "pool_exit"
                      ELSE "pool"
    /\ UNCHANGED <<cycle, parallel_urls, dry_run, shutdown, session_set, futures,
                   ui, listings, li>>
    /\ UNCHANGED <<storeVars, triageHist, faults>>
    /\ UNCHANGED <<rlVars, rtVars, shVars, exVars, fnVars>>

\* a collecting loop that files the results in completion order: the k-th
\* completed future under the k-th submitted url
ResultKey_ByPosition(u) ==
    SelectSeq(Urls, LAMBDA v : v \in ScraperUrls)[Cardinality(collected) + 1]

\* u = futures[fut]; u2, raw_list = fut.result(): the key under which a
\* future's result is filed is the url the future was submitted for
ResultKey(u) == u

\* for fut in as_completed(futures): if is_shutdown_requested(): break;
\* try: scraper_results[u2] = fut.result()  except: scraper_results[u] = []
Collect(u) ==
    /\ opc = "pool"
    /\ u \notin collected
    /\ futures[u] \in {"ok", "raise"}
    /\ IF shutdown
       THEN /\ opc' = "pool_exit"
            /\ UNCHANGED <<collected, scraper_results, extraction>>
       ELSE /\ collected' = collected \cup {u}
            /\ scraper_results' = [scraper_results EXCEPT ![ResultKey(u)] =
                   [has |-> TRUE,
                    raw_list |-> IF futures[u] = "ok" THEN ScrapePage(u) ELSE <<>>]]
            /\ extraction' = [extraction EXCEPT ![u] =
                   IF futures[u] = "ok" THEN "pool_ok" ELSE "pool_failed"]
            /\ opc' = IF collected \cup {u} = ScraperUrls THEN "pool_exit" ELSE "pool"
    /\ UNCHANGED <<cycle, parallel_urls, dry_run, shutdown, session_set, futures,
                   ui, listings, li, abort>>
    /\ UNCHANGED <<storeVars, triageHist, faults>>
    /\ UNCHANGED <<rlVars, rtVars, shVars, exVars, fnVars>>

\* the end of `with ThreadPoolExecutor(...)`: waits for every worker
PoolExit ==
    /\ opc = "pool_exit"
    /\ \A u \in UrlSet : futures[u] \notin {"pending", "running", "saving"}
    /\ opc' = "urls"
    /\ UNCHANGED <<cycle, parallel_urls, dry_run, shutdown, session_set, futures,
                   collected, scraper_results, ui, listings, li, extraction, abort>>
    /\ UNCHANGED <<storeVars, triageHist, faults>>
    /\ UNCHANGED <<rlVars, rtVars, shVars, exVars, fnVars>>

\* for url in urls: exhausted, or `if is_shutdown_requested(): break`
UrlLoopEnd ==
    /\ opc = "urls"
    /\ ui > Len(Urls) \/ shutdown
    /\ opc' = "cycle_end"
    /\ UNCHANGED <<cycle, parallel_urls, dry_run, shutdown, session_set, futures,
                   collected, scraper_results, ui, listings, li, extraction, abort>>
    /\ UNCHANGED <<storeVars, triageHist, faults>>
    /\ UNCHANGED <<rlVars, rtVars, shVars, exVars, fnVars>>

\* if url in scraper_results: listings built from the pool's raw_list
UrlUsePoolResult ==
    /\ opc = "urls"
    /\ ui <= Len(Urls)
    /\ ~shutdown
    /\ scraper_results[Urls[ui]].has
    /\ listings' = ToListings(scraper_results[Urls[ui]].raw_list)
    /\ li' = 1
    /\ opc' = "triage"
    /\ UNCHANGED <<cycle, parallel_urls, dry_run, shutdown, session_set, futures,
                   collected, scraper_results, ui, extraction, abort>>
    /\ UNCHANGED <<storeVars, triageHist, faults>>
    /\ UNCHANGED <<rlVars, rtVars, shVars, exVars, fnVars>>

\* else-branch, dedicated extractor: rate_limiter.wait_if_needed(domain);
\* try: retry_with_backoff(scraper.scrape) except: scroll_and_navigate +
\* extract_listings, outside any try
UrlScrape(out, gout) ==
    /\ opc = "urls"
    /\ ui <= Len(Urls)
    /\ ~shutdown
    /\ ~scraper_results[Urls[ui]].has
    /\ Dedicated(Urls[ui])
    /\ out = "ok" => gout = "ok"
    /\ LET u == Urls[ui] IN
       IF out = "ok"
       THEN /\ listings' = ToListings(ScrapePage(u))
            /\ extraction' = [extraction EXCEPT ![u] = "seq_ok"]
            /\ li' = 1
            /\ opc' = "triage"
            /\ UNCHANGED abort
       ELSE IF gout = "ok"
            THEN /\ listings' = GenericPage(u)
                 /\ extraction' = [extraction EXCEPT ![u] = "seq_fallback"]
                 /\ li' = 1
                 /\ opc' = "triage"
                 /\ UNCHANGED abort
            ELSE /\ extraction' = [extraction EXCEPT ![u] = "seq_fallback_failed"]
                 /\ abort' = "extraction"
                 /\ opc' = "error"
                 /\ UNCHANGED <<listings, li>>
    /\ UNCHANGED <<cycle, parallel_urls, dry_run, shutdown, session_set, futures,
                   collected, scraper_results, ui>>
    /\ out = "raise" => faults < FaultBudget
    /\ faults' = faults + (IF out = "raise" THEN 1 ELSE 0)
    /\ UNCHANGED <<storeVars, triageHist>>
    /\ UNCHANGED <<rlVars, rtVars, shVars, exVars, fnVars>>

\* else-branch, no dedicated extractor: rate_limiter.wait_if_needed(domain);
\* scroll_and_navigate + extract_listings, outside any try
UrlGeneric(gout) ==
    /\ opc = "urls"
    /\ ui <= Len(Urls)
    /\ ~shutdown
    /\ ~scraper_results[Urls[ui]].has
    /\ ~Dedicated(Urls[ui])
    /\ LET u == Urls[ui] IN
       IF gout = "ok"
       THEN /\ listings' = GenericPage(u)
            /\ extraction' = [extraction EXCEPT ![u] = "generic_ok"]
            /\ li' = 1
            /\ opc' = "triage"
            /\ UNCHANGED abort
       ELSE /\ extraction' = [extraction EXCEPT ![u] = "generic_failed"]
            /\ abort' = "extraction"
            /\ opc' = "error"
            /\ UNCHANGED <<listings, li>>
    /\ UNCHANGED <<cycle, parallel_urls, dry_run, shutdown, session_set, futures,
                   collected, scraper_results, ui>>
    /\ gout = "raise" => faults < FaultBudget
    /\ faults' = faults + (IF gout = "raise" THEN 1 ELSE 0)
    /\ UNCHANGED <<storeVars, triageHist>>
    /\ UNCHANGED <<rlVars, rtVars, shVars, exVars, fnVars>>

\* the listing `lst` of the running `for lst in listings` iteration
Cur == listings[li]

InTriage == opc = "triage" /\ li <= Len(listings)

\* a failing store query changes the answer only when the hash is logged
DbChoices ==
    IF InTriage /\ Sha256(Cur.text) \notin session_set
                /\ seen_listing_hash(lead_logs, Sha256(Cur.text), TRUE)
                /\ faults < FaultBudget
    THEN BOOLEAN ELSE {TRUE}

\* a failing log write (swallowed around log_lead and log_agent_listing)
LogChoices == IF faults < FaultBudget THEN BOOLEAN ELSE {TRUE}

\* the number of faults injected by one triage step
Injected(dbOk, logOk) == (IF dbOk THEN 0 ELSE 1) + (IF logOk THEN 0 ELSE 1)

\* what the call deduplicated(text, config["database"], session_set) did
DedupRecord(dbOk) ==
    LET d == deduplicated(Cur.text, lead_logs, session_set, dbOk) IN
    [valid |-> TRUE, h |-> Sha256(Cur.text),
     inSession |-> Sha256(Cur.text) \in session_set,
     seen |-> dbOk /\ \E i \in 1..Len(lead_logs) :
                         lead_logs[i].listing_hash = Sha256(Cur.text),
     queried |-> d.queried, dup |-> d.dup,
     before |-> session_set, after |-> d.session]

\* detection = {...}: from the scraper record when there is one, else from
\* extract_listing_structured
Detection(lst, st) ==
    IF lst.raw.present
    THEN [is_private |-> lst.raw.is_private,
          confidence |-> IF lst.raw.is_private THEN RawPrivateConfidence
                         ELSE RawAgentConfidence,
          email |-> lst.raw.email]
    ELSE st

StructChoices == IF InTriage /\ ~Cur.raw.present THEN StructuredOutputs ELSE {NoRaw}

\* a seller-type test that trusts is_private whatever the confidence
IsPrivate_IgnoresConfidence(det) == det.is_private

\* is_private = detection.is_private and confidence >= min_conf and
\* verify_qualifies(text)   (verify_qualifies always returns True)
IsPrivate(det) == det.is_private /\ det.confidence >= MinConfidence

\* airbnb_ok = airbnb_enabled and rating >= airbnb_min_rating
AirbnbOk(rating) == rating >= AirbnbMinRating

\* an outreach test outside `if is_private:`
Outreach_AnySeller(det, rating) ==
    AirbnbOk(rating) /\ det.email # "" /\ det.email \notin contacts

\* if is_private: ... elif email and not is_contacted(db, email)
Outreach(det, rating) ==
    IsPrivate(det) /\ AirbnbOk(rating) /\ det.email # "" /\ det.email \notin contacts

\* log_lead is reached
LogsLead(det, rating) ==
    IsPrivate(det) /\ (~AirbnbOk(rating) \/ Outreach(det, rating))

\* status = "queued" if dry_run else ("sent" if any_success else "failed")
OutreachStatus(sendOk) ==
    IF dry_run THEN "queued" ELSE IF sendOk THEN "sent" ELSE "failed"

MaxScore == 1

\* the values compute_priority_score(viability_rating, is_private,
\* has_contact, private_confidence) can return: a bounded score
Scores == 0..MaxScore

\* the scores a specification follows: all of them where the score is
\* compared, one elsewhere (no condition of main reads `priority`)
ScoreChoices == IF env = "priority" THEN Scores ELSE {0}

\* a row whose status follows the score
LeadRow_StatusByScore(lst, priority) ==
    [text |-> lst.text, url |-> lst.url,
     status |-> IF priority > 0 THEN "New" ELSE "Skipped",
     priority_score |-> priority]

\* the row upsert_lead(config["database"], title, ..., "New",
\* priority_score=priority) inserts
LeadRow(lst, priority) ==
    [text |-> lst.text, url |-> lst.url, status |-> "New",
     priority_score |-> priority]

\* what one iteration of `for lst in listings` did: how it ended, whether
\* shutdown was already requested when it began, the detection it used, the
\* functions it called, and the sizes of the tables when it began
TriageRecord(kind, det, calls) ==
    [valid |-> TRUE, kind |-> kind, late |-> shutdown,
     is_private |-> det.is_private, confidence |-> det.confidence,
     calls |-> calls, log_failed |-> FALSE,
     leads0 |-> Len(leads), lead_logs0 |-> Len(lead_logs),
     agent_logs0 |-> Len(agent_logs)]

NoDetection == [is_private |-> FALSE, confidence |-> 0, email |-> ""]

\* the calls of the loop body for an eligible listing, lines 240-370
AcceptCalls(lst, det, rating) ==
    {"deduplicated", "classify_eligible"}
    \cup (IF lst.raw.present THEN {} ELSE {"extract_listing_structured"})
    \cup {"is_airbnb_viable", "compute_priority_score", "upsert_lead"}
    \cup (IF Outreach(det, rating) THEN {"generate_proposal", "send_all"} ELSE {})
    \cup (IF LogsLead(det, rating) THEN {"log_lead"} ELSE {})
    \cup (IF IsPrivate(det) THEN {}
          ELSE {"extract_agent_details", "log_agent_listing"})

\* if deduplicated(text, config["database"], session_set): continue
TriageDuplicate ==
    \E dbOk \in DbChoices :
        /\ InTriage
        /\ deduplicated(Cur.text, lead_logs, session_set, dbOk).dup
        /\ session_set' = deduplicated(Cur.text, lead_logs, session_set, dbOk).session
        /\ lastDedup' = DedupRecord(dbOk)
        /\ skipped' = Append(skipped, Cur)
        /\ lastTriage' = TriageRecord("duplicate", NoDetection, {"deduplicated"})
        /\ faults' = faults + Injected(dbOk, TRUE)
        /\ li' = li + 1
        /\ UNCHANGED <<opc, cycle, parallel_urls, dry_run, shutdown, futures, collected,
                       scraper_results, ui, listings, extraction, abort, passed, triaged>>
        /\ UNCHANGED storeVars
        /\ UNCHANGED <<rlVars, rtVars, shVars, exVars, fnVars>>

\* the history of a listing that passes deduplication
PassDedup(dbOk) ==
    /\ InTriage
    /\ dbOk \in DbChoices
    /\ ~deduplicated(Cur.text, lead_logs, session_set, dbOk).dup
    /\ session_set' = deduplicated(Cur.text, lead_logs, session_set, dbOk).session
    /\ lastDedup' = DedupRecord(dbOk)
    /\ passed' = Append(passed, Cur)
    /\ triaged' = triaged \cup {<<Cur.text, cycle>>}
    /\ UNCHANGED skipped

\* an eligibility gate that lets the ineligible listing through to the
\* viability call and the Lead upsert
TriageIneligible_FallsThrough ==
    \E dbOk \in DbChoices :
        /\ PassDedup(dbOk)
        /\ lastTriage' = TriageRecord("ineligible", NoDetection,
                                      {"deduplicated", "classify_eligible",
                                       "is_airbnb_viable", "upsert_lead"})
        /\ leads' = Append(leads, LeadRow(Cur, 0))
        /\ faults' = faults + Injected(dbOk, TRUE)
        /\ li' = li + 1
        /\ UNCHANGED <<opc, cycle, parallel_urls, dry_run, shutdown, futures, collected,
                       scraper_results, ui, listings, extraction, abort>>
        /\ UNCHANGED <<lead_logs, agent_logs, contacts>>
        /\ UNCHANGED <<rlVars, rtVars, shVars, exVars, fnVars>>

\* eligible = classify_eligible(...).get("eligible", False);
\* if not eligible: continue
TriageIneligible ==
    \E dbOk \in DbChoices :
        /\ PassDedup(dbOk)
        /\ lastTriage' = TriageRecord("ineligible", NoDetection,
                                      {"deduplicated", "classify_eligible"})
        /\ faults' = faults + Injected(dbOk, TRUE)
        /\ li' = li + 1
        /\ UNCHANGED <<opc, cycle, parallel_urls, dry_run, shutdown, futures, collected,
                       scraper_results, ui, listings, extraction, abort>>
        /\ UNCHANGED storeVars
        /\ UNCHANGED <<rlVars, rtVars, shVars, exVars, fnVars>>

\* classify_eligible, extract_listing_structured or is_airbnb_viable raises:
\* nothing in the loop body catches it
TriageLLMFail ==
    \E dbOk \in DbChoices :
        /\ PassDedup(dbOk)
        /\ lastTriage' = TriageRecord("llm_failed", NoDetection,
                                      {"deduplicated", "classify_eligible"})
        /\ faults' = faults + Injected(dbOk, TRUE)
        /\ abort' = "llm"
        /\ opc' = "error"
        /\ UNCHANGED <<cycle, parallel_urls, dry_run, shutdown, futures, collected,
                       scraper_results, ui, listings, li, extraction>>
        /\ UNCHANGED storeVars
        /\ UNCHANGED <<rlVars, rtVars, shVars, exVars, fnVars>>

\* a loop body that swallows a failing upsert_lead and goes on with the next
\* listing
TriageUpsertFail_Swallowed ==
    \E dbOk \in DbChoices :
        /\ PassDedup(dbOk)
        /\ lastTriage' = TriageRecord("upsert_failed", NoDetection,
                              {"deduplicated", "classify_eligible", "is_airbnb_viable",
                               "compute_priority_score", "upsert_lead"})
        /\ faults' = faults + Injected(dbOk, TRUE)
        /\ li' = li + 1
        /\ UNCHANGED <<opc, cycle, parallel_urls, dry_run, shutdown, futures, collected,
                       scraper_results, ui, listings, extraction, abort>>
        /\ UNCHANGED storeVars
        /\ UNCHANGED <<rlVars, rtVars, shVars, exVars, fnVars>>

\* upsert_lead raises (sqlite3 error on connect, INSERT or commit): neither
\* upsert_lead nor the loop body catches it
TriageUpsertFail ==
    \E dbOk \in DbChoices :
        /\ PassDedup(dbOk)
        /\ lastTriage' = TriageRecord("upsert_failed", NoDetection,
                              {"deduplicated", "classify_eligible", "is_airbnb_viable",
                               "compute_priority_score", "upsert_lead"})
        /\ faults' = faults + Injected(dbOk, TRUE)
        /\ abort' = "upsert"
        /\ opc' = "error"
        /\ UNCHANGED <<cycle, parallel_urls, dry_run, shutdown, futures, collected,
                       scraper_results, ui, listings, li, extraction>>
        /\ UNCHANGED storeVars
        /\ UNCHANGED <<rlVars, rtVars, shVars, exVars, fnVars>>

\* what the rest of the loop body leaves in the tables for an eligible
\* listing: the Lead row, then the lead log (private path) or the agent log,
\* and the contact recorded by a send that succeeded
AcceptOutcome(lst, det, rating, logOk, sendOk, priority) ==
    [leads |-> Append(leads, LeadRow(lst, priority)),
     lead_logs |->
        IF LogsLead(det, rating) /\ logOk
        THEN Append(lead_logs,
                [listing_hash |-> Sha256(lst.text),
                 status |-> IF ~AirbnbOk(rating) THEN "skipped"
                            ELSE OutreachStatus(sendOk)])
        ELSE lead_logs,
     contacts |->
        IF Outreach(det, rating) /\ ~dry_run /\ sendOk
        THEN contacts \cup {det.email} ELSE contacts,
     agent_logs |->
        IF ~IsPrivate(det) /\ logOk
        THEN Append(agent_logs, [url |-> lst.url, text |-> lst.text])
        ELSE agent_logs,
     calls |-> AcceptCalls(lst, det, rating)]

\* the rest of the loop body for an eligible listing: detection, viability,
\* upsert_lead(..., "New"), then the private path (log_lead "skipped", or
\* generate_proposal + send_all + log_lead) or the agent path (log_agent_listing)
TriageAccept ==
    \E dbOk \in DbChoices, st \in StructChoices, rating \in Ratings,
       logOk \in LogChoices, sendOk \in BOOLEAN, priority \in ScoreChoices :
        /\ InTriage
        /\ dbOk \/ logOk
        /\ (IsPrivate(Detection(Cur, st)) /\ ~LogsLead(Detection(Cur, st), rating))
               => logOk
        /\ (~(Outreach(Detection(Cur, st), rating) /\ ~dry_run)) => ~sendOk
        /\ PassDedup(dbOk)
        /\ LET det == Detection(Cur, st)
               out == AcceptOutcome(Cur, det, rating, logOk, sendOk, priority)
           IN /\ leads' = out.leads
              /\ lead_logs' = out.lead_logs
              /\ contacts' = out.contacts
              /\ agent_logs' = out.agent_logs
              /\ lastTriage' = [TriageRecord("accepted", det, out.calls)
                                   EXCEPT !.log_failed = ~logOk]
        /\ faults' = faults + Injected(dbOk, logOk)
        /\ li' = li + 1
        /\ UNCHANGED <<opc, cycle, parallel_urls, dry_run, shutdown, futures, collected,
                       scraper_results, ui, listings, extraction, abort>>
        /\ UNCHANGED <<rlVars, rtVars, shVars, exVars, fnVars>>

\* `for lst in listings` is exhausted: the next url
TriageDone ==
    /\ opc = "triage"
    /\ li > Len(listings)
    /\ ui' = ui + 1
    /\ opc' = "urls"
    /\ UNCHANGED <<cycle, parallel_urls, dry_run, shutdown, session_set, futures,
                   collected, scraper_results, listings, li, extraction, abort>>
    /\ UNCHANGED <<storeVars, triageHist, faults>>
    /\ UNCHANGED <<rlVars, rtVars, shVars, exVars, fnVars>>

\* if is_shutdown_requested(): break; else sleep out the cooldown
CycleEnd ==
    /\ opc = "cycle_end"
    /\ IF shutdown
       THEN opc' = "closed" /\ abort' = "shutdown" /\ CloseSession
       ELSE opc' = "top" /\ UNCHANGED abort /\ UNCHANGED shVars
    /\ UNCHANGED <<cycle, parallel_urls, dry_run, shutdown, session_set, futures,
                   collected, scraper_results, ui, listings, li, extraction>>
    /\ UNCHANGED <<storeVars, triageHist, faults>>
    /\ UNCHANGED <<rlVars, rtVars, exVars, fnVars>>

\* except Exception: logging.exception(...); raise; finally: close_browser(...)
Fail ==
    /\ opc = "error"
    /\ opc' = "raised"
    /\ CloseSession
    /\ UNCHANGED <<cycle, parallel_urls, dry_run, shutdown, session_set, futures,
                   collected, scraper_results, ui, listings, li, extraction, abort>>
    /\ UNCHANGED <<storeVars, triageHist, faults>>
    /\ UNCHANGED <<rlVars, rtVars, exVars, fnVars>>

\* SIGINT: _shutdown runs in the main thread between two of its steps:
\* request_shutdown(); close_browser(...); sys.exit(0)
Sigint ==
    /\ env = "signals"
    /\ opc \in {"top", "pool", "pool_exit", "urls", "triage", "cycle_end", "error"}
    /\ shutdown' = TRUE
    /\ CloseSession
    /\ opc' = "exiting"
    /\ abort' = IF abort = "" THEN "sigint" ELSE abort
    /\ UNCHANGED <<cycle, parallel_urls, dry_run, session_set, futures,
                   collected, scraper_results, ui, listings, li, extraction>>
    /\ UNCHANGED <<storeVars, triageHist, faults>>
    /\ UNCHANGED <<rlVars, rtVars, exVars, fnVars>>

\* SystemExit leaves main: the `with ThreadPoolExecutor` exit waits for the
\* workers, `except Exception` does not match, `finally` calls close_browser
\* a second time, and the process ends
SysExit ==
    /\ opc = "exiting"
    /\ \A u \in UrlSet : futures[u] \notin {"pending", "running", "saving"}
    /\ CloseSession
    /\ opc' = "exited"
    /\ abort' = IF close_browser(browser).raised THEN "close_error" ELSE abort
    /\ UNCHANGED <<cycle, parallel_urls, dry_run, shutdown, session_set, futures,
                   collected, scraper_results, ui, listings, li, extraction>>
    /\ UNCHANGED <<storeVars, triageHist, faults>>
    /\ UNCHANGED <<rlVars, rtVars, exVars, fnVars>>

Outcomes == {"ok", "raise"}

NextCycle ==
    \/ CycleStart
    \/ \E u \in UrlSet : WorkerStart(u)
    \/ \E u \in UrlSet, out \in Outcomes : WorkerDone(u, out)
    \/ \E u \in UrlSet : Collect(u)
    \/ PoolExit
    \/ UrlLoopEnd
    \/ UrlUsePoolResult
    \/ \E out \in Outcomes, gout \in Outcomes : UrlScrape(out, gout)
    \/ \E gout \in Outcomes : UrlGeneric(gout)
    \/ TriageDuplicate
    \/ TriageIneligible
    \/ TriageLLMFail
    \/ TriageUpsertFail
    \/ TriageAccept
    \/ TriageDone
    \/ CycleEnd
    \/ Fail

SpecCycle == InitCycle /\ [][NextCycle]_vars

\* main() under request_shutdown and SIGINT, without injected failures
NextShutdown ==
    \/ NextCycle
    \/ RequestShutdown
    \/ Sigint
    \/ SysExit

SpecShutdown == InitShutdown /\ [][NextShutdown]_vars

InitPool == InitMain("pool")

\* main() with the store writes of the pool's workers made visible
NextPool ==
    \/ NextCycle
    \/ \E u \in UrlSet : WorkerSave(u)

SpecPool == InitPool /\ [][NextPool]_vars

InitPriority == InitMain("priority")

\* main() with every value of the priority score followed
SpecPriority == InitPriority /\ [][NextCycle]_vars

----------------------------------------------------------------------------
(* The extraction of one target url                                        *)

\* pipeline.ALLOWED_SCHEMES
ALLOWED_SCHEMES == {"http", "https"}

\* the schemes and hosts of the configured target urls
Schemes == {"http", "https", "ftp", "file", ""}
Netlocs == {"", "example.com", "www.athome.lu"}

\* a target url as urlparse(url.strip()) splits it
TargetUrls == [scheme : Schemes, netloc : Netlocs]

\* pipeline.validate_url: scheme in ALLOWED_SCHEMES and a non-empty netloc
\* (every host is allowed)
validate_url(u) == u.scheme \in ALLOWED_SCHEMES /\ u.netloc # ""

\* scraper._infer_source_from_url on these urls
InferSourceOf(u) == IF u.netloc = "www.athome.lu" THEN "athome" ELSE "generic"

\* if use_scraper_module and source_type != "generic"
DedicatedPath == x_use_scraper /\ InferSourceOf(x_url) # "generic"

\* retry_with_backoff(..., max_attempts=3, ...)
ScrapeAttempts == 3

\* retry_with_backoff(..., initial_delay=1.0, backoff=2.0, ...)
ScrapeInitialDelay == 1
ScrapeBackoff == 2

\* the delay slept after the n-th failed attempt: delay starts at
\* initial_delay and is multiplied by backoff after every sleep
ScrapeDelay(n) == ScrapeInitialDelay * ScrapeBackoff ^ (n - 1)

\* domain = urlparse(url).netloc or "unknown"
DomainKey(u) == IF u.netloc # "" THEN u.netloc ELSE "unknown"

\* a url loop that never finds the url in scraper_results
InScraperResults_Never == FALSE

\* if url in scraper_results
InScraperResults == x_in_results

\* a url of _build_target_urls(config): submitted to the pool (dedicated
\* sources only, parallel_urls > 1), or left to main's url loop
InitExtract ==
    /\ RateLimiterIdle
    /\ RetryIdle
    /\ CycleIdle
    /\ env = "extract"
    /\ FnIdle
    /\ x_url \in TargetUrls
    /\ x_use_scraper \in BOOLEAN
    /\ x_path \in {"sequential", "pool"}
    /\ x_path = "pool" => DedicatedPath
    /\ x_pc = IF x_path = "pool" THEN "start" ELSE "off"
    /\ x_main = IF x_path = "pool" THEN "pool" ELSE "urls"
    /\ x_attempt = 0
    /\ x_gotos = 0
    /\ x_listings = "none"
    /\ x_shutdown = FALSE
    /\ x_in_results = FALSE
    /\ x_admits = <<>>
    /\ x_delays = <<>>

\* pipeline.request_shutdown(), from a signal handler or another thread; the
\* flag is never cleared
XRequestShutdown ==
    /\ env = "extract"
    /\ x_main \in {"pool", "pool_exit", "urls"}
    /\ ~x_shutdown
    /\ x_shutdown' = TRUE
    /\ UNCHANGED <<x_url, x_use_scraper, x_path, x_pc, x_attempt, x_gotos,
                   x_listings, x_main, x_in_results, x_admits, x_delays>>
    /\ UNCHANGED <<rlVars, rtVars, cyVars, fnVars>>

\* as_completed yields the future of the url: break on shutdown, else
\* scraper_results[url] = raw_list, or [] when fut.result() raises
XCollect ==
    /\ x_main = "pool"
    /\ x_pc = "done"
    /\ x_in_results' = ~x_shutdown
    /\ x_main' = "pool_exit"
    /\ UNCHANGED <<x_url, x_use_scraper, x_path, x_pc, x_attempt, x_gotos,
                   x_listings, x_shutdown, x_admits, x_delays>>
    /\ UNCHANGED <<rlVars, rtVars, cyVars, fnVars>>

\* as_completed yields the future of another url after shutdown was
\* requested: break, the future of this url is never collected
XPoolBreak ==
    /\ x_main = "pool"
    /\ x_shutdown
    /\ x_main' = "pool_exit"
    /\ UNCHANGED <<x_url, x_use_scraper, x_path, x_pc, x_attempt, x_gotos,
                   x_listings, x_shutdown, x_in_results, x_admits, x_delays>>
    /\ UNCHANGED <<rlVars, rtVars, cyVars, fnVars>>

\* the end of `with ThreadPoolExecutor(...)`: shutdown(wait=True) returns
\* once every worker has finished; then `for url in urls`
XPoolExit ==
    /\ x_main = "pool_exit"
    /\ x_pc = "done"
    /\ x_main' = "urls"
    /\ UNCHANGED <<x_url, x_use_scraper, x_path, x_pc, x_attempt, x_gotos,
                   x_listings, x_shutdown, x_in_results, x_admits, x_delays>>
    /\ UNCHANGED <<rlVars, rtVars, cyVars, fnVars>>

\* `for url in urls` reaches the url: if is_shutdown_requested(): break;
\* if url in scraper_results: the pool's raw_list; else: the else-branch
XUrlLoop ==
    /\ x_main = "urls"
    /\ IF x_shutdown
       THEN /\ x_main' = "ended"
            /\ UNCHANGED <<x_path, x_pc, x_attempt, x_delays>>
       ELSE IF InScraperResults
            THEN /\ x_main' = "triage"
                 /\ UNCHANGED <<x_path, x_pc, x_attempt, x_delays>>
            ELSE /\ x_main' = "dispatch"
                 /\ x_path' = "sequential"
                 /\ x_pc' = "start"
                 /\ x_attempt' = 0
                 /\ x_delays' = <<>>
    /\ UNCHANGED <<x_url, x_use_scraper, x_gotos, x_listings, x_shutdown,
                   x_in_results, x_admits>>
    /\ UNCHANGED <<rlVars, rtVars, cyVars, fnVars>>

\* domain = urlparse(url).netloc or "unknown";
\* rate_limiter.wait_if_needed(domain); the choice of the extraction path
XWaitIfNeeded ==
    /\ x_pc = "start"
    /\ x_admits' = Append(x_admits, [by |-> x_path, key |-> DomainKey(x_url)])
    /\ x_pc' = IF DedicatedPath THEN "scrape" ELSE "generic"
    /\ UNCHANGED <<x_url, x_use_scraper, x_path, x_attempt, x_gotos, x_listings,
                   x_main, x_shutdown, x_in_results, x_delays>>
    /\ UNCHANGED <<rlVars, rtVars, cyVars, fnVars>>

\* one call of scraper.scrape(url) by retry_with_backoff:
\* if not validate_url(url): return []; else self.goto(url) and collect;
\* after a failed attempt that is not the last, time.sleep(delay)
XScrape(out) ==
    /\ x_pc = "scrape"
    /\ x_attempt < ScrapeAttempts
    /\ x_attempt' = x_attempt + 1
    /\ IF ~validate_url(x_url)
       THEN /\ x_listings' = "empty"
            /\ x_pc' = "done"
            /\ UNCHANGED <<x_gotos, x_delays>>
       ELSE /\ x_gotos' = x_gotos + 1
            /\ IF out = "ok"
               THEN x_listings' = "found" /\ x_pc' = "done" /\ UNCHANGED x_delays
               ELSE IF x_attempt + 1 < ScrapeAttempts
                    THEN /\ x_delays' = Append(x_delays, ScrapeDelay(x_attempt + 1))
                         /\ UNCHANGED <<x_listings, x_pc>>
                    ELSE /\ UNCHANGED x_delays
                         /\ IF x_path = "pool"
                            THEN x_listings' = "empty" /\ x_pc' = "done"
                            ELSE UNCHANGED x_listings /\ x_pc' = "fallback"
    /\ UNCHANGED <<x_url, x_use_scraper, x_path, x_main, x_shutdown,
                   x_in_results, x_admits>>
    /\ UNCHANGED <<rlVars, rtVars, cyVars, fnVars>>

\* browser_automation.scroll_and_navigate(page, url, ...): page.goto(url), and
\* on a playwright Error a second page.goto(url), whose error propagates;
\* then extract_listings
ScrollAndNavigate(gout) ==
    /\ x_gotos' = x_gotos + (IF gout = "ok" THEN 1 ELSE 2)
    /\ x_listings' = IF gout = "ok" THEN "found" ELSE x_listings
    /\ x_pc' = IF gout = "ok" THEN "done" ELSE "raised"

\* except Exception: scroll_and_navigate + extract_listings (main.py 203-213)
XFallback(gout) ==
    /\ x_pc = "fallback"
    /\ ScrollAndNavigate(gout)
    /\ UNCHANGED <<x_url, x_use_scraper, x_path, x_attempt, x_main, x_shutdown,
                   x_in_results, x_admits, x_delays>>
    /\ UNCHANGED <<rlVars, rtVars, cyVars, fnVars>>

\* else: scroll_and_navigate + extract_listings (main.py 214-224)
XGeneric(gout) ==
    /\ x_pc = "generic"
    /\ ScrollAndNavigate(gout)
    /\ UNCHANGED <<x_url, x_use_scraper, x_path, x_attempt, x_main, x_shutdown,
                   x_in_results, x_admits, x_delays>>
    /\ UNCHANGED <<rlVars, rtVars, cyVars, fnVars>>

NextExtract ==
    \/ XRequestShutdown
    \/ XCollect
    \/ XPoolBreak
    \/ XPoolExit
    \/ XUrlLoop
    \/ XWaitIfNeeded
    \/ \E out \in {"ok", "raise"} : XScrape(out)
    \/ \E gout \in {"ok", "raise"} : XFallback(gout)
    \/ \E gout \in {"ok", "raise"} : XGeneric(gout)

SpecExtract == InitExtract /\ [][NextExtract]_vars

----------------------------------------------------------------------------
(* The seller-type heuristics: analysis.agent_private_check and            *)
(* Scraper._detect_private_agent                                           *)

MaxWords == 3

\* the words listing texts are made of
Vocabulary == {"owner", "direct", "no", "agency", "agent", "broker", "flat", "OWNER"}

\* the listing texts: sequences of at most MaxWords words
Texts == UNION {[1..k -> Vocabulary] : k \in 0..MaxWords}

\* str.lower, word by word
Lower(w) == IF w = "OWNER" THEN "owner" ELSE w

LowerText(t) == [i \in 1..Len(t) |-> Lower(t[i])]

\* `kw in text`: kw occurs in text as a contiguous run
Contains(t, kw) ==
    \E i \in 0..(Len(t) - Len(kw)) : SubSeq(t, i + 1, i + Len(kw)) = kw

\* analysis.agent_private_check: the default private_keywords and
\* agent_keywords that can be spelled with the vocabulary
private_keywords == {<<"owner", "direct">>, <<"no", "agency">>, <<"no", "agent">>}
agent_keywords == {<<"agency">>, <<"broker">>}

\* scraper.PRIVATE_KWS and scraper.AGENT_KWS, likewise
PRIVATE_KWS == {<<"owner", "direct">>, <<"no", "agent">>}
AGENT_KWS == {<<"agency">>, <<"broker">>}

\* a heuristic that compares the text as it is written
text_lower_AsWritten(t) == t

\* text_lower = text.lower()   /   t = (text or "").lower()
text_lower(t) == LowerText(t)

\* the answers of the language model: a classification, or a failure of
\* every request
LlmAnswers ==
    { [ok |-> TRUE, is_private |-> TRUE, confidence |-> 7],
      [ok |-> TRUE, is_private |-> FALSE, confidence |-> 4],
      [ok |-> FALSE, is_private |-> FALSE, confidence |-> 0] }

\* the attempts of agent_private_check's `for attempt in range(3)`
CheckAttempts == 3

\* analysis.agent_private_check(text, config); llm_calls counts ollama.chat
agent_private_check(text, llm) ==
    LET t == text_lower(text)
        has_private == \E kw \in private_keywords : Contains(t, kw)
        has_agent == \E kw \in agent_keywords : Contains(t, kw)
    IN IF has_private /\ ~has_agent
       THEN [is_private |-> TRUE, confidence |-> 9, llm_calls |-> 0]
       ELSE IF has_agent
       THEN [is_private |-> FALSE, confidence |-> 9, llm_calls |-> 0]
       ELSE IF llm.ok
       THEN [is_private |-> llm.is_private, confidence |-> llm.confidence,
             llm_calls |-> 1]
       ELSE [is_private |-> FALSE, confidence |-> 0, llm_calls |-> CheckAttempts]

\* Scraper._detect_private_agent(text), followed by main's
\* detection = {"is_private": raw.is_private,
\*              "confidence": 8 if raw.is_private else 2};
\* llm_calls counts the calls of _call_json_with_retry
detect_private_agent(text, llm) ==
    LET t == text_lower(text)
        has_private == \E kw \in PRIVATE_KWS : Contains(t, kw)
        has_agent == \E kw \in AGENT_KWS : Contains(t, kw)
        is_private == IF has_private /\ ~has_agent THEN TRUE
                      ELSE IF has_agent /\ ~has_private THEN FALSE
                      ELSE IF has_private /\ has_agent THEN llm.ok /\ llm.is_private
                      ELSE FALSE
    IN [is_private |-> is_private,
        confidence |-> IF is_private THEN RawPrivateConfidence
                       ELSE RawAgentConfidence,
        llm_calls |-> IF has_private /\ has_agent THEN 1 ELSE 0]

InitSellerType ==
    /\ RateLimiterIdle
    /\ RetryIdle
    /\ CycleIdle
    /\ ExtractIdle
    /\ env = "function"
    /\ f_name \in {"agent_private_check", "_detect_private_agent"}
    /\ f_arg \in [text : Texts, llm : LlmAnswers]
    /\ f_ret = NoArg
    /\ f_pc = "ready"

CallAgentPrivateCheck ==
    /\ f_pc = "ready"
    /\ f_name = "agent_private_check"
    /\ f_ret' = agent_private_check(f_arg.text, f_arg.llm)
    /\ f_pc' = "done"
    /\ UNCHANGED <<f_name, f_arg>>
    /\ UNCHANGED <<rlVars, rtVars, cyVars, exVars>>

CallDetectPrivateAgent ==
    /\ f_pc = "ready"
    /\ f_name = "_detect_private_agent"
    /\ f_ret' = detect_private_agent(f_arg.text, f_arg.llm)
    /\ f_pc' = "done"
    /\ UNCHANGED <<f_name, f_arg>>
    /\ UNCHANGED <<rlVars, rtVars, cyVars, exVars>>

NextSellerType ==
    \/ CallAgentPrivateCheck
    \/ CallDetectPrivateAgent

SpecSellerType == InitSellerType /\ [][NextSellerType]_vars

----------------------------------------------------------------------------
(* llm_integration._call_json_with_retry                                   *)

Backends == {"llama_cpp", "xai", "ollama"}

\* what a backend answers to one request: text that is a JSON object, text
\* that is not JSON, or no answer at all (the request raises)
Answers == {"{\"eligible\": true}", "not json", "unavailable"}

\* json.loads(raw), as called twice on the same text by
\* utils.parse_json_with_retry
json_loads(raw) ==
    IF raw = "{\"eligible\": true}"
    THEN [ok |-> TRUE, value |-> [eligible |-> TRUE]]
    ELSE [ok |-> FALSE, value |-> [eligible |-> FALSE]]

NoValue == [eligible |-> FALSE]

\* the prompt of the second request
RetryPrompt_Unchanged(prompt) == prompt

\* retry_prompt = prompt + "\nStrict JSON only."
RetryPrompt(prompt) == prompt \o <<"Strict JSON only.">>

\* the branch of _call_json_with_retry for one backend; ans[1] and ans[2]
\* are the backend's answers to its first and second request
OneBackend(b, prompt, ans) ==
    IF ans[1] = "unavailable"
    THEN [outcome |-> "raised", value |-> NoValue,
          requests |-> << [backend |-> b, prompt |-> prompt] >>]
    ELSE IF json_loads(ans[1]).ok
    THEN [outcome |-> "returned", value |-> json_loads(ans[1]).value,
          requests |-> << [backend |-> b, prompt |-> prompt] >>]
    ELSE LET reqs == << [backend |-> b, prompt |-> prompt],
                        [backend |-> b, prompt |-> RetryPrompt(prompt)] >>
         IN IF ans[2] # "unavailable" /\ json_loads(ans[2]).ok
            THEN [outcome |-> "returned", value |-> json_loads(ans[2]).value,
                  requests |-> reqs]
            ELSE [outcome |-> "raised", value |-> NoValue, requests |-> reqs]

\* for candidate in ("llama_cpp", "xai", "ollama"), xai skipped without
\* XAI_API_KEY
Candidates(xai_key) ==
    IF xai_key THEN <<"llama_cpp", "xai", "ollama">> ELSE <<"llama_cpp", "ollama">>

\* provider == "auto": the candidates in turn, the first result returned,
\* else the last exception raised
RECURSIVE AutoFrom(_, _, _, _, _)
AutoFrom(cands, i, prompt, answers, reqs) ==
    LET r == OneBackend(cands[i], prompt, answers[cands[i]]) IN
    IF r.outcome = "returned" \/ i = Len(cands)
    THEN [r EXCEPT !.requests = reqs \o r.requests]
    ELSE AutoFrom(cands, i + 1, prompt, answers, reqs \o r.requests)

\* llm_integration._call_json_with_retry(prompt, model, provider)
call_json_with_retry(prompt, provider, xai_key, answers) ==
    IF provider = "auto"
    THEN AutoFrom(Candidates(xai_key), 1, prompt, answers, <<>>)
    ELSE IF provider \in {"xai", "llama_cpp"}
    THEN OneBackend(provider, prompt, answers[provider])
    ELSE OneBackend("ollama", prompt, answers["ollama"])

\* the prompt built by the caller (load_prompt(...).format(...))
ThePrompt == <<"eligibility prompt">>

InitCallJson ==
    /\ RateLimiterIdle
    /\ RetryIdle
    /\ CycleIdle
    /\ ExtractIdle
    /\ env = "function"
    /\ f_name = "_call_json_with_retry"
    /\ f_arg \in [provider : Backends \cup {"auto"}, xai_key : BOOLEAN,
                  answers : [Backends -> [1..2 -> Answers]]]
    /\ f_ret = NoArg
    /\ f_pc = "ready"

CallJsonWithRetry ==
    /\ f_pc = "ready"
    /\ f_name = "_call_json_with_retry"
    /\ f_ret' = call_json_with_retry(ThePrompt, f_arg.provider, f_arg.xai_key,
                                     f_arg.answers)
    /\ f_pc' = "done"
    /\ UNCHANGED <<f_name, f_arg>>
    /\ UNCHANGED <<rlVars, rtVars, cyVars, exVars>>

NextCallJson == CallJsonWithRetry

SpecCallJson == InitCallJson /\ [][NextCallJson]_vars

----------------------------------------------------------------------------
(* Cooling down: the end of a cycle of main (main.py 133, 381-389).  The   *)
(* step is a function of the configured limits, of the time the cycle took, *)
(* of the value random.randint draws and of how late time.sleep returns.    *)

MaxCooldown == 3
MaxElapsed == 4

\* config["limits"]: cycle_cooldown_seconds, cooldown_min, cooldown_max
CooldownLimits ==
    {l \in [cycle_cooldown_seconds : 0..MaxCooldown,
            cooldown_min : 0..MaxElapsed,
            cooldown_max : 0..MaxElapsed] : l.cooldown_min <= l.cooldown_max}

\* utils.random_delay(min_sec, max_sec): the values random.randint can draw
random_delay(min_sec, max_sec) == min_sec..max_sec

\* the sleep main asks for once the cycle has run for `elapsed` seconds:
\* the rest of the cooldown, or, past the cooldown, the random delay `draw`
CooldownSleep(limits, elapsed, draw) ==
    IF elapsed < limits.cycle_cooldown_seconds
        THEN [branch |-> "remainder",
              sleep |-> limits.cycle_cooldown_seconds - elapsed]
        ELSE [branch |-> "random_delay", sleep |-> draw]

InitCooldown ==
    /\ RateLimiterIdle
    /\ RetryIdle
    /\ CycleIdle
    /\ ExtractIdle
    /\ env = "function"
    /\ f_name = "cooling_down"
    /\ \E l \in CooldownLimits :
           f_arg \in [limits : {l},
                      elapsed : 0..MaxElapsed,
                      draw : random_delay(l.cooldown_min, l.cooldown_max),
                      late : 0..MaxOvershoot]
    /\ f_ret = NoArg
    /\ f_pc = "ready"

\* from cycle_start = time.time() to the next pass of the while loop
CoolingDown ==
    /\ f_pc = "ready"
    /\ f_name = "cooling_down"
    /\ LET s == CooldownSleep(f_arg.limits, f_arg.elapsed, f_arg.draw)
       IN f_ret' = [branch |-> s.branch,
                    sleep |-> s.sleep,
                    next_start |-> f_arg.elapsed + s.sleep + f_arg.late]
    /\ f_pc' = "done"
    /\ UNCHANGED <<f_name, f_arg>>
    /\ UNCHANGED <<rlVars, rtVars, cyVars, exVars>>

NextCooldown == CoolingDown

SpecCooldown == InitCooldown /\ [][NextCooldown]_vars

----------------------------------------------------------------------------
(* The listing records of the extractors (silos/scraper.py): the source    *)
(* tag and the url of every record scrape and scrape_with_groups return.   *)
(* A url is the sequence of its pieces: a link "https://host" "/" "item"   *)
(* is absolute, "/" "item" and "item" are relative, <<>> is the empty      *)
(* string.                                                                 *)

MaxElements == 2

\* site_name of Scraper and of its subclasses
SiteNames ==
    {"generic", "athome", "immotop", "rightmove", "nextimmo", "bingo",
     "propertyweb", "wortimmo", "facebook_marketplace"}

\* the prefix each extract_listing_data puts before a relative link
\* (_BASE, or the literal of AtHomeScraper and RightmoveScraper)
SiteBase(site) ==
    CASE site = "athome" -> "https://www.athome.lu"
      [] site = "immotop" -> "https://www.immotop.lu"
      [] site = "rightmove" -> "https://www.rightmove.co.uk"
      [] site = "nextimmo" -> "https://nextimmo.lu"
      [] site = "bingo" -> "https://www.bingo.lu"
      [] site = "propertyweb" -> "https://www.propertyweb.lu"
      [] site = "wortimmo" -> "https://www.wortimmo.lu"
      [] OTHER -> ""

\* the href values an element of the page can carry
Hrefs ==
    {<<>>,
     <<"https://www.athome.lu", "/", "id-1.html">>,
     <<"/", "id-1.html">>,
     <<"id-1.html">>}

\* the pages an extractor is sent to
PageUrls == {<<"https://www.facebook.com", "/", "marketplace">>,
             <<"https://www.athome.lu", "/", "en">>}

\* the pieces that begin with "http"
HttpPieces ==
    {SiteBase(s) : s \in SiteNames \ {"generic", "facebook_marketplace"}}
    \cup {"https://www.facebook.com"}

\* str.startswith("http"), str.startswith("/")
StartsWithHttp(u) == Len(u) > 0 /\ u[1] \in HttpPieces
StartsWithSlash(u) == Len(u) > 0 /\ u[1] = "/"

\* ".html" in link_url and "athome" in link_url
AtHomeLink(u) ==
    /\ \E i \in 1..Len(u) : u[i] = "id-1.html"
    /\ \E i \in 1..Len(u) : u[i] = "https://www.athome.lu"

\* base + (href if href.startswith("/") else "/" + href)
Prefixed(base, href) ==
    IF StartsWithSlash(href) THEN <<base>> \o href
    ELSE <<base, "/">> \o href

\* out["url"] of each extract_listing_data
ExtractUrl(site, href) ==
    CASE site \in {"generic", "facebook_marketplace"} -> href
      [] site = "athome" ->
            LET first == IF href # <<>> /\ AtHomeLink(href)
                         THEN IF StartsWithHttp(href) THEN href
                              ELSE Prefixed(SiteBase(site), href)
                         ELSE href
            IN IF first # <<>> /\ ~StartsWithHttp(first)
               THEN Prefixed(SiteBase(site), first) ELSE first
      [] site = "rightmove" ->
            IF href # <<>> /\ ~StartsWithHttp(href)
            THEN IF StartsWithSlash(href) THEN <<SiteBase(site)>> \o href
                 ELSE <<>>
            ELSE href
      [] OTHER ->
            IF href # <<>> /\ ~StartsWithHttp(href)
            THEN Prefixed(SiteBase(site), href) ELSE href

\* "source" of the dict extract_listing_data returns: the base class leaves
\* the key out
ExtractSource(site) == IF site = "generic" THEN "" ELSE site

\* the loop body of Scraper.scrape and AtHomeScraper.scrape:
\* data["url"] = data.get("url") or url; source defaults to site_name
ScrapeRecord(site, href, url) ==
    [source |-> IF ExtractSource(site) = "" THEN site ELSE ExtractSource(site),
     url |-> IF ExtractUrl(site, href) # <<>> THEN ExtractUrl(site, href)
             ELSE url]

\* the group loop of scrape_with_groups
GroupRecord(href, gurl) ==
    [source |-> "facebook_group",
     url |-> IF ExtractUrl("facebook_marketplace", href) # <<>>
             THEN ExtractUrl("facebook_marketplace", href) ELSE gurl]

\* the marketplace part of scrape_with_groups: the url is not touched
MarketplaceRecord(href, marketplace_url) ==
    [source |-> "facebook_marketplace",
     url |-> ExtractUrl("facebook_marketplace", href)]

\* the elements collect_listings finds on a page
ElementLists == UNION {[1..n -> Hrefs] : n \in 0..MaxElements}

\* the records of one page, with the element and page each came from
RECURSIVE PageRecords(_, _, _, _)
PageRecords(kind, site, elements, url) ==
    IF elements = <<>> THEN <<>>
    ELSE LET rec == IF kind = "scrape"
                        THEN ScrapeRecord(site, Head(elements), url)
                    ELSE IF kind = "group"
                        THEN GroupRecord(Head(elements), url)
                    ELSE MarketplaceRecord(Head(elements), url)
         IN <<[rec |-> rec, site |-> site, href |-> Head(elements),
               page |-> url]>>
            \o PageRecords(kind, site, Tail(elements), url)

InitRecords ==
    /\ RateLimiterIdle
    /\ RetryIdle
    /\ CycleIdle
    /\ ExtractIdle
    /\ env = "function"
    /\ \/ /\ f_name = "scrape"
          /\ f_arg \in [site : SiteNames, url : PageUrls,
                        elements : ElementLists]
       \/ /\ f_name = "scrape_with_groups"
          /\ f_arg \in [group_urls : {<<>>} \cup {<<u>> : u \in PageUrls},
                        marketplace_url : {<<>>} \cup PageUrls,
                        group_elements : ElementLists,
                        elements : ElementLists]
    /\ f_ret = NoArg
    /\ f_pc = "ready"

\* scraper.scrape(url, ...) of any extractor
CallScrape ==
    /\ f_pc = "ready"
    /\ f_name = "scrape"
    /\ f_ret' = [listings |-> PageRecords("scrape", f_arg.site, f_arg.elements,
                                          f_arg.url)]
    /\ f_pc' = "done"
    /\ UNCHANGED <<f_name, f_arg>>
    /\ UNCHANGED <<rlVars, rtVars, cyVars, exVars>>

\* FBMarketplaceScraper.scrape_with_groups(marketplace_url, group_urls, ...)
CallScrapeWithGroups ==
    /\ f_pc = "ready"
    /\ f_name = "scrape_with_groups"
    /\ f_ret' =
         [listings |->
            (IF f_arg.group_urls # <<>>
             THEN PageRecords("group", "facebook_marketplace",
                              f_arg.group_elements, f_arg.group_urls[1])
             ELSE <<>>)
            \o (IF f_arg.marketplace_url # <<>>
                THEN PageRecords("marketplace", "facebook_marketplace",
                                 f_arg.elements, f_arg.marketplace_url)
                ELSE <<>>)]
    /\ f_pc' = "done"
    /\ UNCHANGED <<f_name, f_arg>>
    /\ UNCHANGED <<rlVars, rtVars, cyVars, exVars>>

NextRecords == CallScrape \/ CallScrapeWithGroups

SpecRecords == InitRecords /\ [][NextRecords]_vars

----------------------------------------------------------------------------
(* Outreach: silos/contacting.py send_all, and the status main logs after  *)
(* it (main.py 345-349)                                                    *)

MaxEmails == 2

Addresses == {"owner@example.lu", "seller@example.lu"}

\* contacts["emails"]
EmailLists == UNION {[1..n -> Addresses] : n \in 0..MaxEmails}

\* the config argument: None, or a dict whose "dry_run" key main has set
SendConfigs ==
    {[present |-> FALSE, dry_run |-> TRUE]}
    \cup {[present |-> TRUE, dry_run |-> d] : d \in BOOLEAN}

\* dry_run = config.get("dry_run", True) if config else True
DryRunOf(config) == IF config.present THEN config.dry_run ELSE TRUE

\* a loop body that calls send_email whatever dry_run says
EmailStep_AlwaysSends(addr, dry, ok) ==
    [result |-> [channel |-> "email", to |-> addr, success |-> ok,
                 reason |-> ""],
     send_email |-> <<addr>>,
     log_contact |-> IF ok THEN <<addr>> ELSE <<>>]

\* one pass of `for addr in emails`; ok is what send_email returns
EmailStep(addr, dry, ok) ==
    IF dry
    THEN [result |-> [channel |-> "email", to |-> addr, success |-> FALSE,
                      reason |-> "dry_run"],
          send_email |-> <<>>,
          log_contact |-> <<>>]
    ELSE [result |-> [channel |-> "email", to |-> addr, success |-> ok,
                      reason |-> ""],
          send_email |-> <<addr>>,
          log_contact |-> IF ok THEN <<addr>> ELSE <<>>]

\* `for addr in emails`: the results, the send_email calls and the
\* log_contact calls, in order
RECURSIVE EmailLoop(_, _, _)
EmailLoop(emails, dry, smtp) ==
    IF emails = <<>>
    THEN [results |-> <<>>, send_email |-> <<>>, log_contact |-> <<>>]
    ELSE LET s == EmailStep(Head(emails), dry, smtp[Head(emails)])
             r == EmailLoop(Tail(emails), dry, smtp)
         IN [results |-> <<s.result>> \o r.results,
             send_email |-> s.send_email \o r.send_email,
             log_contact |-> s.log_contact \o r.log_contact]

\* the stub of the other channels: one "whatsapp" result per phone
PhoneResults(phone) ==
    IF phone = "" THEN <<>>
    ELSE <<[channel |-> "whatsapp", to |-> phone, success |-> FALSE,
            reason |-> "Not implemented yet"]>>

\* send_all(contacts, message, source, config)
send_all(emails, phone, config, smtp) ==
    LET e == IF emails # <<>> /\ config.present
             THEN EmailLoop(emails, DryRunOf(config), smtp)
             ELSE [results |-> <<>>, send_email |-> <<>>, log_contact |-> <<>>]
    IN [results |-> e.results \o PhoneResults(phone),
        send_email |-> e.send_email,
        log_contact |-> e.log_contact]

\* any_success = any(r.get("success") for r in send_results);
\* status = "queued" if config.get("dry_run", True) else
\*          ("sent" if any_success else "failed")
SendStatus(config, results) ==
    IF DryRunOf(config) THEN "queued"
    ELSE IF \E i \in 1..Len(results) : results[i].success THEN "sent"
    ELSE "failed"

InitSendAll ==
    /\ RateLimiterIdle
    /\ RetryIdle
    /\ CycleIdle
    /\ ExtractIdle
    /\ env = "function"
    /\ f_name = "send_all"
    /\ f_arg \in [emails : EmailLists, phone : {"", "+352 000"},
                  config : SendConfigs, smtp : [Addresses -> BOOLEAN]]
    /\ f_ret = NoArg
    /\ f_pc = "ready"

\* send_results = send_all(...), then the status handed to log_lead
CallSendAll ==
    /\ f_pc = "ready"
    /\ f_name = "send_all"
    /\ LET r == send_all(f_arg.emails, f_arg.phone, f_arg.config, f_arg.smtp)
       IN f_ret' = [results |-> r.results,
                    send_email |-> r.send_email,
                    log_contact |-> r.log_contact,
                    status |-> SendStatus(f_arg.config, r.results)]
    /\ f_pc' = "done"
    /\ UNCHANGED <<f_name, f_arg>>
    /\ UNCHANGED <<rlVars, rtVars, cyVars, exVars>>

NextSendAll == CallSendAll

SpecSendAll == InitSendAll /\ [][NextSendAll]_vars

----------------------------------------------------------------------------
(* BuildingTargets: main._build_target_urls (main.py 55-78).  A url is a   *)
(* tuple of pieces: <<"s1">> is a configured literal, <<"fb", slug>> is    *)
(* what a marketplace template with a {country} placeholder formats to.    *)

MaxCfgUrls == 2

CountryNames == {"Luxembourg", "United Kingdom"}

\* config["countries"]
CountryLists ==
    {<<>>, <<"Luxembourg">>, <<"Luxembourg", "United Kingdom">>,
     <<"United Kingdom", "Luxembourg">>}

\* country.lower().replace(" ", "")
Slug(country) ==
    CASE country = "Luxembourg" -> "luxembourg"
      [] country = "United Kingdom" -> "unitedkingdom"

\* lists of at most MaxCfgUrls urls over `pool`, repetitions included
UrlListsOver(pool) ==
    UNION {[1..n -> pool] : n \in 0..MaxCfgUrls}

SiteUrls == {<<"s1">>, <<"s2">>}

\* a country's list, of the site lists or of the group lists
ShortLists == {<<>>, <<<<"s1">>>>, <<<<"g1">>, <<"s1">>>>}

\* a dict keyed by country; {} is the empty function
ByCountry(first, others) ==
    {<<>>} \cup
    {("Luxembourg" :> a) @@ ("United Kingdom" :> b) :
        a \in first, b \in others}

\* fb_cfg["marketplace_url_template"]: absent, a literal, or with {country}
Templates == {"", "s1", "fb/{country}"}

\* template.format(country=slug)
Format(template, slug) ==
    IF template = "fb/{country}" THEN <<"fb", slug>> ELSE <<template>>

\* d.get(key, [])
GetList(d, key) == IF key \in DOMAIN d THEN d[key] ELSE <<>>

RECURSIVE ExtendEach(_, _, _)
\* for country in countries: urls.extend(d.get(country, []))
ExtendEach(urls, d, countries) ==
    IF countries = <<>> THEN urls
    ELSE ExtendEach(urls \o GetList(d, Head(countries)), d, Tail(countries))

RECURSIVE AppendFormatted(_, _, _)
\* for country in countries: urls.append(template.format(country=slug))
AppendFormatted(urls, template, countries) ==
    IF countries = <<>> THEN urls
    ELSE AppendFormatted(Append(urls, Format(template, Slug(Head(countries)))),
                         template, Tail(countries))

RECURSIVE dict_fromkeys_KeepLast(_)
dict_fromkeys_KeepLast(urls) ==
    IF urls = <<>> THEN <<>>
    ELSE LET rest == dict_fromkeys_KeepLast(Tail(urls))
         IN IF \E i \in DOMAIN rest : rest[i] = Head(urls)
                THEN rest
                ELSE <<Head(urls)>> \o rest

RECURSIVE dict_fromkeys(_)
\* list(dict.fromkeys(urls)): the first occurrence of every url, in order
dict_fromkeys(urls) ==
    IF urls = <<>> THEN <<>>
    ELSE LET front == dict_fromkeys(SubSeq(urls, 1, Len(urls) - 1))
             last == urls[Len(urls)]
         IN IF \E i \in DOMAIN front : front[i] = last
                THEN front
                ELSE Append(front, last)

\* _build_target_urls(config)
build_target_urls(config) ==
    IF config.source_type # ""
        THEN dict_fromkeys(config.start_urls)
        ELSE LET countries == config.countries
                 target_by_country == config.target_sites_by_country
                 sites ==
                     IF countries # <<>> /\ target_by_country # <<>>
                         THEN ExtendEach(<<>>, target_by_country, countries)
                         ELSE config.start_urls
                 fb_cfg == config.facebook
                 market ==
                     IF fb_cfg.marketplace_enabled
                        /\ fb_cfg.marketplace_url_template # ""
                         THEN AppendFormatted(sites,
                                  fb_cfg.marketplace_url_template, countries)
                         ELSE sites
             IN dict_fromkeys(
                    ExtendEach(market, fb_cfg.groups_by_country, countries))

TargetConfigs ==
    [source_type : {"", "websites"},
     start_urls : UrlListsOver(SiteUrls),
     countries : CountryLists,
     target_sites_by_country : ByCountry(UrlListsOver(SiteUrls), ShortLists),
     facebook : [marketplace_enabled : BOOLEAN,
                 marketplace_url_template : Templates,
                 groups_by_country : ByCountry(ShortLists, ShortLists)]]

InitTargets ==
    /\ RateLimiterIdle
    /\ RetryIdle
    /\ CycleIdle
    /\ ExtractIdle
    /\ env = "function"
    /\ f_name = "_build_target_urls"
    /\ f_arg \in TargetConfigs
    /\ f_ret = NoArg
    /\ f_pc = "ready"

\* urls = _build_target_urls(config)
BuildTargetUrls ==
    /\ f_pc = "ready"
    /\ f_name = "_build_target_urls"
    /\ f_ret' = [urls |-> build_target_urls(f_arg)]
    /\ f_pc' = "done"
    /\ UNCHANGED <<f_name, f_arg>>
    /\ UNCHANGED <<rlVars, rtVars, cyVars, exVars>>

NextTargets == BuildTargetUrls

SpecTargets == InitTargets /\ [][NextTargets]_vars

----------------------------------------------------------------------------
(* The language-model fallback of analysis.agent_private_check             *)
(* (analysis.py 58-93): the loop `for attempt in range(3)` around           *)
(* ollama.chat, parse_json_with_retry and the normalisation of the keys.    *)

\* what one ollama.chat call yields: resp["message"]["content"], or
\* "unavailable" when the call raises
ChatAnswers ==
    {"{\"is_private\": true, \"confidence\": 7}",
     "{\"is_private\": false, \"confidence\": 4}",
     "{\"is_private\": true}",
     "{\"confidence\": \"high\"}",
     "not json",
     "unavailable"}

\* one pass through the try block: ollama.chat, parse_json_with_retry(raw,
\* raw) and the normalisation bool(...), int(... or 0); ok is FALSE when any
\* of them raises
TryClassify(raw) ==
    CASE raw = "{\"is_private\": true, \"confidence\": 7}" ->
            [ok |-> TRUE, is_private |-> TRUE, confidence |-> 7]
      [] raw = "{\"is_private\": false, \"confidence\": 4}" ->
            [ok |-> TRUE, is_private |-> FALSE, confidence |-> 4]
      [] raw = "{\"is_private\": true}" ->
            [ok |-> TRUE, is_private |-> TRUE, confidence |-> 0]
      [] OTHER ->
            [ok |-> FALSE, is_private |-> FALSE, confidence |-> 0]

BackoffSleep_Linear(n) == n + 1

\* time.sleep(2**attempt)
BackoffSleep(n) == Pow(2, n)

RECURSIVE FallbackLoop(_, _, _)
\* the iterations of the loop from `attempt` on; sleeps are the time.sleep
\* calls made so far
FallbackLoop(n, answers, sleeps) ==
    IF n >= CheckAttempts
        THEN [is_private |-> FALSE, confidence |-> 0, raised |-> FALSE,
              reason |-> "LLM classification failed",
              llm_calls |-> n, sleeps |-> sleeps]
        ELSE LET got == TryClassify(answers[n + 1])
             IN IF got.ok
                    THEN [is_private |-> got.is_private,
                          confidence |-> got.confidence, raised |-> FALSE,
                          reason |-> "LLM classification",
                          llm_calls |-> n + 1, sleeps |-> sleeps]
                    ELSE FallbackLoop(n + 1, answers,
                                      Append(sleeps, BackoffSleep(n)))

\* agent_private_check from `last_exc = None` on
llm_fallback(answers) == FallbackLoop(0, answers, <<>>)

InitFallback ==
    /\ RateLimiterIdle
    /\ RetryIdle
    /\ CycleIdle
    /\ ExtractIdle
    /\ env = "function"
    /\ f_name = "llm_fallback"
    /\ f_arg \in [answers : [1..CheckAttempts -> ChatAnswers]]
    /\ f_ret = NoArg
    /\ f_pc = "ready"

\* agent_private_check(text, config) for a text the keywords do not decide
CallLlmFallback ==
    /\ f_pc = "ready"
    /\ f_name = "llm_fallback"
    /\ f_ret' = llm_fallback(f_arg.answers)
    /\ f_pc' = "done"
    /\ UNCHANGED <<f_name, f_arg>>
    /\ UNCHANGED <<rlVars, rtVars, cyVars, exVars>>

NextFallback == CallLlmFallback

SpecFallback == InitFallback /\ [][NextFallback]_vars

----------------------------------------------------------------------------
(* Consent-banner dismissal: browser_automation.try_accept_consent and the *)
(* accept_consent methods of the extractors.  A page is the set of the      *)
(* affordances it shows; a probe looks for one kind of affordance and       *)
(* clicks it when it is there.                                              *)

\* a button matching REJECT_OR_NECESSARY_TEXTS, REJECT_SELECTORS,
\* ACCEPT_TEXTS or ACCEPT_SELECTORS on the main page, or a consent button
\* inside a nested frame
Affordances ==
    {"reject_text", "reject_css", "accept_text", "accept_css", "frame_button"}

ConsentPages == SUBSET Affordances

Probe(by, clicks) == [by |-> by, clicks |-> clicks]

\* try_accept_consent(page): the probes in the order of its `if` tests
try_accept_consent_probes ==
    << Probe("text", "reject_text"),      \* _click_consent_by_text(REJECT_..)
       Probe("css", "reject_css"),        \* _click_consent_by_selectors(REJECT_..)
       Probe("text", "accept_text"),      \* _click_consent_by_text(ACCEPT_TEXTS)
       Probe("css", "accept_css"),        \* _click_consent_by_selectors(ACCEPT_..)
       Probe("frame", "frame_button"),    \* _try_consent_in_frame
       Probe("nuclear", "accept_text") >> \* _click_consent_nuclear

\* the extractors, by the accept_consent they run
Extractors ==
    {"scraper.Scraper", "scraper.AtHomeScraper", "scrapers.athome.AtHomeScraper",
     "scrapers.immotop.ImmotopScraper"}

\* accept_consent of each extractor, as the sequence of its probes
accept_consent_probes(extractor) ==
    CASE extractor = "scraper.Scraper" -> try_accept_consent_probes
      [] extractor = "scraper.AtHomeScraper" ->
            << Probe("text", "accept_text"), Probe("css", "accept_css") >>
      [] extractor = "scrapers.athome.AtHomeScraper" ->
            try_accept_consent_probes \o
            << Probe("text", "reject_text"), Probe("text", "accept_text"),
               Probe("css", "reject_css"), Probe("css", "accept_css") >>
      [] extractor = "scrapers.immotop.ImmotopScraper" ->
            << Probe("text", "reject_text"), Probe("text", "accept_text"),
               Probe("css", "accept_css"), Probe("css", "reject_css") >> \o
            try_accept_consent_probes

RECURSIVE RunProbes(_, _, _)
\* the probes run one after the other until one clicks
RunProbes(probes, page, tried) ==
    IF probes = <<>>
        THEN [clicked |-> "none", tried |-> tried]
        ELSE IF Head(probes).clicks \in page
            THEN [clicked |-> Head(probes).clicks,
                  tried |-> Append(tried, Head(probes))]
            ELSE RunProbes(Tail(probes), page, Append(tried, Head(probes)))

InitConsent ==
    /\ RateLimiterIdle
    /\ RetryIdle
    /\ CycleIdle
    /\ ExtractIdle
    /\ env = "function"
    /\ f_name = "accept_consent"
    /\ f_arg \in [extractor : Extractors, page : ConsentPages]
    /\ f_ret = NoArg
    /\ f_pc = "ready"

\* self.accept_consent() after goto (scraper.py 194)
AcceptConsent ==
    /\ f_pc = "ready"
    /\ f_name = "accept_consent"
    /\ f_ret' = RunProbes(accept_consent_probes(f_arg.extractor), f_arg.page, <<>>)
    /\ f_pc' = "done"
    /\ UNCHANGED <<f_name, f_arg>>
    /\ UNCHANGED <<rlVars, rtVars, cyVars, exVars>>

NextConsent == AcceptConsent

SpecConsent == InitConsent /\ [][NextConsent]_vars

----------------------------------------------------------------------------
(* The browser session of one Scraper.scrape call (scraper.py 176-221,     *)
(* browser_automation.init_browser 51-89).  A worker of the pool calls      *)
(* scrape with page=None and the url loop of main with its own page.        *)

SessionParts == {"playwright", "browser", "context", "page"}

\* how browser_automation.init_browser ends: at the first attempt, at the
\* retry after a playwright Error, or by raising from the retry, which has
\* no handler: before sync_playwright().start() returned, at
\* chromium.launch, or at new_context
InitBrowserEnds ==
    {"first", "retry", "start_raises", "launch_raises", "new_context_raises"}

\* init_browser(headless): whether it returned the four handles, and what it
\* has started and left running
init_browser(how) ==
    CASE how \in {"first", "retry"} -> [ok |-> TRUE, running |-> SessionParts]
      [] how = "start_raises" -> [ok |-> FALSE, running |-> {}]
      [] how = "launch_raises" -> [ok |-> FALSE, running |-> {"playwright"}]
      [] how = "new_context_raises" ->
            [ok |-> FALSE, running |-> {"playwright", "browser"}]

\* where the body of the try block ends
ScrapeBodyEnds ==
    {"returns", "goto_raises", "collect_raises", "extract_raises", "save_raises"}

\* finally: if own_browser and self._playwright: close_browser(...)
finally_close(own_browser, playwright_set) == own_browser /\ playwright_set

\* Scraper.scrape(url, dry_run, db_path, page)
scrape(valid, page_supplied, how, body, dry) ==
    IF ~valid
        THEN [exit |-> "returned", own_browser |-> FALSE, started |-> {},
              running |-> {}, handles |-> "none", page_closed |-> FALSE]
        ELSE LET own_browser == ~page_supplied
                 ib == IF own_browser THEN init_browser(how)
                       ELSE [ok |-> TRUE, running |-> {}]
                 playwright_set == own_browser /\ ib.ok
                 closes_session == finally_close(own_browser, playwright_set)
                 ends == IF ~ib.ok THEN "init_raises"
                         ELSE IF body = "save_raises" /\ dry THEN "returns"
                         ELSE body
             IN [exit |-> IF ends = "returns" THEN "returned" ELSE "raised",
                 own_browser |-> own_browser,
                 started |-> ib.running,
                 running |-> IF closes_session THEN {} ELSE ib.running,
                 handles |-> IF closes_session THEN "none"
                             ELSE IF page_supplied THEN "page"
                             ELSE IF playwright_set THEN "session"
                             ELSE "none",
                 page_closed |-> FALSE]

InitSession ==
    /\ RateLimiterIdle
    /\ RetryIdle
    /\ CycleIdle
    /\ ExtractIdle
    /\ env = "function"
    /\ f_name = "scrape_session"
    /\ f_arg \in [valid : BOOLEAN, page_supplied : BOOLEAN,
                  how : InitBrowserEnds, body : ScrapeBodyEnds,
                  dry_run : BOOLEAN]
    /\ f_ret = NoArg
    /\ f_pc = "ready"

\* scraper.scrape(url, ..., page=None) in _scrape_one_url, and
\* scraper.scrape(u, ..., page=page) in the url loop of main
ScrapeCall ==
    /\ f_pc = "ready"
    /\ f_name = "scrape_session"
    /\ f_ret' = scrape(f_arg.valid, f_arg.page_supplied, f_arg.how,
                       f_arg.body, f_arg.dry_run)
    /\ f_pc' = "done"
    /\ UNCHANGED <<f_name, f_arg>>
    /\ UNCHANGED <<rlVars, rtVars, cyVars, exVars>>

NextSession == ScrapeCall

SpecSession == InitSession /\ [][NextSession]_vars

----------------------------------------------------------------------------
(* The lead queue: email_sender.upsert_lead and get_viable_leads            *)
(* (email_sender.py 145-202).  f_arg is the table leads, in the order of   *)
(* the rowids; f_ret is what the last query returned.                       *)

MaxLeads == 2

\* the arguments of upsert_lead that the query reads; priority_score -1 is
\* None
LeadArgs ==
    [priority_score : {-1} \cup Scores, rating : Ratings,
     airbnb_viable : BOOLEAN]

\* upsert_lead(db_path, ..., airbnb_viable, ..., rating, ..., priority_score)
upsert_lead(table, lead) ==
    Append(table,
           [id |-> Len(table) + 1,
            priority_score |-> IF lead.priority_score = -1 THEN 0
                               ELSE lead.priority_score,
            rating |-> lead.rating,
            airbnb_viable |-> IF lead.airbnb_viable THEN 1 ELSE 0])

SortsBefore_ByRowid(a, b) == a.id < b.id

\* ORDER BY priority_score DESC, rating DESC: a must come before b
SortsBefore(a, b) ==
    \/ a.priority_score > b.priority_score
    \/ a.priority_score = b.priority_score /\ a.rating > b.rating

\* WHERE airbnb_viable = 1
ViableRows(table) == {i \in DOMAIN table : table[i].airbnb_viable = 1}

\* get_viable_leads(db_path): the lists the SELECT can return, the rows the
\* ORDER BY terms do not tell apart being in any order
get_viable_leads(table) ==
    LET ids == ViableRows(table)
        n == Cardinality(ids)
    IN {[k \in 1..n |-> table[q[k]]] :
           q \in {p \in [1..n -> ids] :
                     /\ \A i, j \in 1..n : i # j => p[i] # p[j]
                     /\ \A i, j \in 1..n :
                            i < j => ~SortsBefore(table[p[j]], table[p[i]])}}

InitQueue ==
    /\ RateLimiterIdle
    /\ RetryIdle
    /\ CycleIdle
    /\ ExtractIdle
    /\ env = "function"
    /\ f_name = "get_viable_leads"
    /\ f_arg = <<>>
    /\ f_ret = NoArg
    /\ f_pc = "ready"

\* main: upsert_lead(...) for a listing that passed triage
UpsertLead ==
    /\ f_pc = "ready"
    /\ f_name = "get_viable_leads"
    /\ Len(f_arg) < MaxLeads
    /\ \E lead \in LeadArgs : f_arg' = upsert_lead(f_arg, lead)
    /\ UNCHANGED <<f_name, f_ret, f_pc>>
    /\ UNCHANGED <<rlVars, rtVars, cyVars, exVars>>

\* gui: get_viable_leads(db_path)
GetViableLeads ==
    /\ f_pc = "ready"
    /\ f_name = "get_viable_leads"
    /\ \E rows \in get_viable_leads(f_arg) : f_ret' = [rows |-> rows]
    /\ f_pc' = "done"
    /\ UNCHANGED <<f_name, f_arg>>
    /\ UNCHANGED <<rlVars, rtVars, cyVars, exVars>>

NextQueue == UpsertLead \/ GetViableLeads

SpecQueue == InitQueue /\ [][NextQueue]_vars

----------------------------------------------------------------------------
(* The generic extraction path: data_scraper.extract_listings               *)
(* (data_scraper.py 9-78)                                                   *)

ElementTexts == {"Listing A", "Listing B", "Listing C"}

\* hash(text): equal texts have equal hashes; two different texts may
\* collide
TextHash(text) ==
    CASE text = "Listing A" -> 1
      [] text = "Listing B" -> 2
      [] text = "Listing C" -> 1

\* what page.query_selector_all(selector) returns: text and href of each
\* element ("" is no href, neither on the element nor on a link inside it)
LiveElements ==
    UNION {[1..n -> [text : ElementTexts, href : {"", "/item"}]] :
              n \in 0..MaxElements}

\* what soup.select(selector) finds in page.content()
HtmlElements ==
    UNION {[1..n -> [text : ElementTexts, href : {""}]] :
              n \in 0..MaxElements}

\* href = urljoin(page.url, href); "url": href or page.url
ListingUrl(page_url, href) ==
    IF href # "" THEN <<page_url, href>> ELSE <<page_url>>

AlreadySeen_Never(seen, h) == FALSE

\* if text_hash in seen: continue
AlreadySeen(seen, h) == h \in seen

RECURSIVE ListingLoop(_, _, _, _, _)
\* `for el in elements` from element k on; the inner_text call of element
\* `stop` raises PlaywrightTimeoutError and the listings so far are returned
ListingLoop(elements, k, stop, seen, found) ==
    IF k > Len(elements) \/ k = stop
        THEN found
        ELSE LET el == elements[k]
                 text_hash == TextHash(el.text)
             IN IF AlreadySeen(seen, text_hash)
                    THEN ListingLoop(elements, k + 1, stop, seen, found)
                    ELSE ListingLoop(elements, k + 1, stop,
                             seen \cup {text_hash},
                             Append(found,
                                 [text |-> el.text, hash |-> text_hash,
                                  url |-> ListingUrl("http://example.com",
                                                     el.href)]))

\* extract_listings(page, selector, site); stop = 0: query_selector_all
\* raises PlaywrightTimeoutError
extract_listings(live, html, stop) ==
    IF stop = 0
        THEN [listings |-> <<>>, parsed_html |-> FALSE]
        ELSE IF live # <<>>
            THEN [listings |-> ListingLoop(live, 1, stop, {}, <<>>),
                  parsed_html |-> FALSE]
            ELSE [listings |-> ListingLoop(html, 1, MaxElements + 1, {}, <<>>),
                  parsed_html |-> TRUE]

InitGenericExtract ==
    /\ RateLimiterIdle
    /\ RetryIdle
    /\ CycleIdle
    /\ ExtractIdle
    /\ env = "function"
    /\ f_name = "extract_listings"
    /\ f_arg \in [live : LiveElements, html : HtmlElements,
                  stop : 0..(MaxElements + 1)]
    /\ f_ret = NoArg
    /\ f_pc = "ready"

\* main: listings = extract_listings(page, selector, site)
ExtractListings ==
    /\ f_pc = "ready"
    /\ f_name = "extract_listings"
    /\ f_ret' = extract_listings(f_arg.live, f_arg.html, f_arg.stop)
    /\ f_pc' = "done"
    /\ UNCHANGED <<f_name, f_arg>>
    /\ UNCHANGED <<rlVars, rtVars, cyVars, exVars>>

NextGenericExtract == ExtractListings

SpecGenericExtract == InitGenericExtract /\ [][NextGenericExtract]_vars

----------------------------------------------------------------------------
(* The rate limiter with the threads scheduled fairly: every thread that   *)
(* can take a step eventually takes it, a released lock is eventually      *)
(* acquired by a waiting thread, and time.sleep returns because the wall   *)
(* clock goes on.  The pool submits one call per url (main.py 145-156), so *)
(* the calls of a cycle are finitely many.  The lock is one for all the    *)
(* domains: the callers follow one domain, where they contend for the lock *)
(* and for the budget alike.                                               *)

InitLive == InitLimiter("live")

\* the wall clock advances, also past MaxTime while a thread is asleep
TickLive ==
    /\ \/ clock + TickLen <= MaxTime
       \/ \E t \in Threads : pc[t] = "sleeping" /\ wake[t] > clock
    /\ clock' = clock + TickLen
    /\ UNCHANGED <<rpm, counts, lock, pc, dom, wake, hist, call, done, ncalls, lastNav, navGap>>
    /\ UNCHANGED <<rtVars, cyVars, exVars, fnVars>>

NextLive ==
    \/ \E t \in Threads, d \in Domains : Call(t, d)
    \/ \E t \in Threads : Acquire(t)
    \/ \E t \in Threads : CheckBudget(t)
    \/ \E t \in Threads : WakeUp(t)
    \/ \E t \in Threads : ReTrim(t)
    \/ \E t \in Threads : Admit(t)
    \/ TickLive

SpecLive ==
    /\ InitLive
    /\ [][NextLive]_vars
    /\ \A t \in Threads :
           /\ WF_vars(Acquire(t))
           /\ WF_vars(CheckBudget(t))
           /\ WF_vars(WakeUp(t))
           /\ WF_vars(ReTrim(t))
           /\ WF_vars(Admit(t))
    /\ WF_vars(TickLive)

----------------------------------------------------------------------------
(* The GUI's "Reset DB" beside the running main loop                       *)

\* a reset that empties the two log tables as well
reset_db_DropsLogs(store) ==
    [leads |-> <<>>, contacts |-> {}, lead_logs |-> <<>>, agent_logs |-> <<>>]

\* email_sender.reset_db: DELETE FROM contacts, DELETE FROM leads, one commit
reset_db(store) ==
    [leads |-> <<>>, contacts |-> {},
     lead_logs |-> store.lead_logs, agent_logs |-> store.agent_logs]

\* the four tables of config["database"]
Store ==
    [leads |-> leads, contacts |-> contacts,
     lead_logs |-> lead_logs, agent_logs |-> agent_logs]

\* ColdBotGUI.reset_db, confirmed, on the database main() writes to; the gui
\* is a process of its own, so the reset falls between any two steps of main
ResetDb ==
    /\ env = "reset"
    /\ opc \notin {"off", "exited"}
    /\ leads' = reset_db(Store).leads
    /\ contacts' = reset_db(Store).contacts
    /\ lead_logs' = reset_db(Store).lead_logs
    /\ agent_logs' = reset_db(Store).agent_logs
    /\ UNCHANGED <<opc, cycle, parallel_urls, dry_run, shutdown, session_set,
                   futures, collected, scraper_results, ui, listings, li,
                   extraction, faults, abort>>
    /\ UNCHANGED triageHist
    /\ UNCHANGED <<rlVars, rtVars, shVars, exVars, fnVars>>

InitReset == InitMain("reset")

NextReset ==
    \/ NextCycle
    \/ ResetDb

\* main() with the gui resetting the database beside it, without injected
\* failures
SpecReset == InitReset /\ [][NextReset]_vars

----------------------------------------------------------------------------
(* Claims                                                                  *)

\* the threads that are inside the `with self._lock` block
InCritical == {t \in Threads : pc[t] \in {"locked", "sleeping", "retrim", "append"}}

\* C1: for every domain, the admissions recorded in any 60-second window
\* (t - 60, t] never number more than rpm, and at most one thread at a time
\* is between its window check and its append.
C1_BudgetPerWindow ==
    /\ \A d \in Domains : \A i \in 1..Len(hist[d]) :
           Len(InWindow(hist[d], hist[d][i])) <= rpm
    /\ Cardinality(InCritical) <= 1

\* C1 witness: a call that found its domain at budget has slept and is about
\* to append inside the critical section while a second thread, calling for
\* the same domain, is queued behind the lock.
C1_Witness ==
    \E t, u \in Threads :
        /\ t # u
        /\ pc[t] = "append" /\ lock = t /\ call[t].over
        /\ pc[u] = "wait_lock" /\ dom[u] = dom[t]

\* C2: a call that finds fewer than rpm earlier admissions of its domain is
\* admitted without sleeping; a call that finds rpm admissions inside the
\* window sleeps and is admitted no earlier than 60/rpm seconds after the
\* earliest admission still in the window.
C2_BlocksOverBudget ==
    done.valid =>
        /\ done.prior < rpm => ~done.slept
        /\ done.over =>
              /\ done.slept
              /\ done.at - done.earliest >= Window \div rpm

\* C2 witness: the (rpm+1)-th call of a domain has completed after sleeping.
C2_Witness ==
    done.valid /\ done.over /\ done.slept /\ done.prior = rpm

\* C3: a call for a domain that is under budget is never kept waiting by a
\* thread that is blocked inside wait_if_needed for another, exhausted domain.
C3_NoCrossDomainDelay ==
    ~ \E t \in Threads, s \in Threads :
        /\ pc[t] = "wait_lock"
        /\ Len(InWindow(hist[dom[t]], clock)) < rpm
        /\ pc[s] = "sleeping"
        /\ dom[s] # dom[t]
        /\ lock = s

\* C4: with max_attempts >= 1, when retry_with_backoff raises, the operation
\* was called exactly max_attempts times, every call raised, and the exception
\* raised is the one of the last call.
C4_RaisesLastAfterMaxAttempts ==
    (r_pc = "raised" /\ max_attempts >= 1) =>
        /\ Len(r_log) = max_attempts
        /\ \A i \in 1..Len(r_log) : r_log[i] = "raise"
        /\ r_result = [kind |-> "raise", val |-> max_attempts]

\* C4 witness: an operation that failed on each of several attempts.
C4_Witness == r_pc = "raised" /\ max_attempts >= 2 /\ Len(r_log) >= 2

\* C5: a call of the operation that does not raise is the last call ever made,
\* and its value is what retry_with_backoff returns.
C5_ReturnsFirstSuccess ==
    \A i \in 1..Len(r_log) : r_log[i] # "raise" =>
        /\ i = Len(r_log)
        /\ r_pc = "returned"
        /\ r_result = [kind |-> "return", val |-> r_log[i]]

\* C5 witness: max_attempts - 1 failures, then a success on the last attempt.
C5_Witness ==
    /\ r_pc = "returned"
    /\ max_attempts >= 2
    /\ Len(r_log) = max_attempts

\* C6 (as stated): when every attempt fails, there is one sleep per failed
\* attempt and the total slept is at least initial_delay * (b^0 + ... ),
\* one term for each failed attempt.
C6_SleepPerFailedAttempt ==
    (r_pc = "raised" /\ max_attempts >= 1) =>
        /\ Len(r_requested) = Len(r_log)
        /\ r_slept >= initial_delay * GeomSum(backoff, Len(r_log))

\* C6 (amended): when every attempt fails, there is one sleep after each
\* failed attempt except the last; the sleep after the k-th failed attempt is
\* requested for initial_delay * backoff^(k-1), and the total slept is at least
\* initial_delay * (b^0 + ... + b^(max_attempts-2)).
C6_SleepBetweenAttempts ==
    (r_pc = "raised" /\ max_attempts >= 1) =>
        /\ Len(r_requested) = max_attempts - 1
        /\ \A k \in 1..Len(r_requested) :
               r_requested[k] = initial_delay * Pow(backoff, k - 1)
        /\ r_slept >= initial_delay * GeomSum(backoff, max_attempts - 1)

\* C6 witness: three failed attempts with a growing delay.
C6_Witness ==
    /\ r_pc = "raised"
    /\ max_attempts = 3
    /\ backoff >= 2
    /\ Len(r_requested) = 2

\* the scraped listings (those built from an extractor's record)
SameTitleDescription(x, y) ==
    /\ x.raw.present
    /\ y.raw.present
    /\ x.raw.title = y.raw.title
    /\ x.raw.description = y.raw.description

\* C7: as long as no store access fails, a listing text passes deduplication
\* in at most one cycle, and no two Lead rows carry the same text.
C7_OncePerFingerprint ==
    faults = 0 =>
        /\ \A x \in triaged, y \in triaged : x[1] = y[1] => x[2] = y[2]
        /\ \A i \in 1..Len(leads), j \in 1..Len(leads) :
               i # j => leads[i].text # leads[j].text

\* C8: deduplicated answers from the session set alone when the fingerprint
\* is in it (no store query, session set unchanged), queries the store
\* otherwise, and adds the fingerprint exactly when both miss, which is the
\* only case in which it returns False.
C8_SessionFirst ==
    lastDedup.valid =>
        /\ lastDedup.inSession =>
              /\ lastDedup.dup
              /\ ~lastDedup.queried
              /\ lastDedup.after = lastDedup.before
        /\ ~lastDedup.inSession => lastDedup.queried
        /\ ~lastDedup.dup <=> (~lastDedup.inSession /\ ~lastDedup.seen)
        /\ lastDedup.after =
              IF ~lastDedup.inSession /\ ~lastDedup.seen
              THEN lastDedup.before \cup {lastDedup.h}
              ELSE lastDedup.before

\* C8 witness: a call answered from the session set while the store has
\* entries that could have been queried.
C8_Witness ==
    /\ lastDedup.valid
    /\ lastDedup.inSession
    /\ lastDedup.dup
    /\ Len(lead_logs) > 0

\* C9: two scraped listings with the same title and description have the same
\* fingerprint, so they never both pass deduplication in one cycle.
C9_SameTitleDescriptionOnce ==
    /\ \A i \in 1..Len(passed), j \in 1..Len(passed) :
           i < j => ~SameTitleDescription(passed[i], passed[j])
    /\ \A i \in 1..Len(passed), j \in 1..Len(skipped) :
           SameTitleDescription(passed[i], skipped[j]) =>
               Sha256(passed[i].text) = Sha256(skipped[j].text)

\* C9 witness: a listing was skipped as the duplicate of a listing of the same
\* cycle that has another url and another source.
C9_Witness ==
    \E i \in 1..Len(passed), j \in 1..Len(skipped) :
        /\ SameTitleDescription(passed[i], skipped[j])
        /\ passed[i].raw.url # skipped[j].raw.url
        /\ passed[i].raw.source # skipped[j].raw.source

\* the extraction of url u failed in this cycle
ExtractionFailed(u) ==
    extraction[u] \in {"pool_failed", "seq_fallback", "seq_fallback_failed",
                       "generic_failed"}

C11_ClassificationFailureContained ==
    /\ abort # "llm"
    /\ lastTriage.kind = "llm_failed" => opc \notin {"error", "raised"}

\* C12: once shutdown has been requested, no url whose extraction has not
\* started is dispatched: no queued work item of the pool is taken up by a
\* worker, and the sequential loop starts no extraction.
C12_NoDispatchAfterShutdown ==
    [][shutdown =>
          \A u \in UrlSet :
              /\ ~(futures[u] = "pending" /\ futures'[u] = "running")
              /\ extraction[u] = "none" => extraction'[u] = "none"]_vars

\* C13: the shutdown flag is polled before each listing: an iteration of
\* `for lst in listings` that begins after shutdown was requested makes no
\* classification call and upserts no Lead.
C13_PolledBeforeEachListing ==
    (lastTriage.valid /\ lastTriage.late) =>
        /\ "classify_eligible" \notin lastTriage.calls
        /\ "upsert_lead" \notin lastTriage.calls
        /\ Len(leads) = lastTriage.leads0

\* C14: on every way out of the cycle loop (shutdown flag observed, SIGINT
\* handler, propagated exception) the browser session has been closed when
\* main is left, no close_browser call raises (the second call of the SIGINT
\* path included), and the rows of the leads table are never removed or
\* changed: every Lead upserted before the request is still there.
C14_ClosedOnEveryExit ==
    /\ [](/\ opc \in {"closed", "raised", "exited"} =>
                browser = "closed" /\ closes >= 1
          /\ opc = "exited" => closes = 2
          /\ abort # "close_error")
    /\ [][/\ Len(leads') >= Len(leads)
          /\ SubSeq(leads', 1, Len(leads)) = leads]_vars

\* C14 witness: SIGINT arrived during triage after a Lead was upserted; the
\* handler and the finally block have both closed the session.
C14_Witness ==
    /\ opc = "exited"
    /\ closes = 2
    /\ browser = "closed"
    /\ Len(leads) > 0

\* C15 as stated: an eligible, non-duplicate listing that is non-private or
\* private with confidence below the minimum gets no Lead row.
C15_NoLeadForNonPrivate ==
    (/\ lastTriage.kind = "accepted"
     /\ ~(lastTriage.is_private /\ lastTriage.confidence >= MinConfidence)) =>
        Len(leads) = lastTriage.leads0

\* C15 amended: every eligible, non-duplicate listing gets exactly one Lead
\* row, with status "New", whatever its seller type; a private listing with
\* confidence >= the minimum is never handed to the agent log; a non-private
\* or low-confidence listing is, in addition to its Lead row, handed to
\* log_agent_listing once (at most one agent-log row: a failing write is
\* swallowed).  A duplicate or ineligible listing gets no row at all.
C15_LeadForEveryEligible ==
    lastTriage.valid =>
        IF lastTriage.kind = "accepted"
        THEN /\ Len(leads) = lastTriage.leads0 + 1
             /\ leads[Len(leads)].status = "New"
             /\ "upsert_lead" \in lastTriage.calls
             /\ IF lastTriage.is_private /\ lastTriage.confidence >= MinConfidence
                THEN /\ "log_agent_listing" \notin lastTriage.calls
                     /\ Len(agent_logs) = lastTriage.agent_logs0
                ELSE /\ "log_agent_listing" \in lastTriage.calls
                     /\ Len(agent_logs) \in {lastTriage.agent_logs0,
                                             lastTriage.agent_logs0 + 1}
        ELSE /\ Len(leads) = lastTriage.leads0
             /\ Len(agent_logs) = lastTriage.agent_logs0

\* C15 witness: a listing classified private with confidence below the
\* minimum was accepted: it has its Lead row and its agent-log row.
C15_Witness ==
    /\ lastTriage.kind = "accepted"
    /\ lastTriage.is_private
    /\ lastTriage.confidence < MinConfidence
    /\ Len(leads) = lastTriage.leads0 + 1
    /\ Len(agent_logs) = lastTriage.agent_logs0 + 1

\* C16: no outreach step (generate_proposal, send_all) runs for a listing
\* classified non-private or private with confidence below the minimum, and
\* such a listing adds no contact and no lead-log entry.
C16_NoOutreachForNonPrivate ==
    (/\ lastTriage.kind = "accepted"
     /\ ~(lastTriage.is_private /\ lastTriage.confidence >= MinConfidence)) =>
        /\ "generate_proposal" \notin lastTriage.calls
        /\ "send_all" \notin lastTriage.calls
        /\ Len(lead_logs) = lastTriage.lead_logs0

\* C16 witness: outside dry-run, a listing that is not private with enough
\* confidence was accepted and went down the agent path.
C16_Witness ==
    /\ lastTriage.kind = "accepted"
    /\ ~dry_run
    /\ ~(lastTriage.is_private /\ lastTriage.confidence >= MinConfidence)
    /\ "log_agent_listing" \in lastTriage.calls
    /\ "send_all" \notin lastTriage.calls

\* C17: an ineligible listing short-circuits the rest of the loop body: after
\* deduplicated and classify_eligible nothing else is called for it, and no
\* Lead, lead-log, agent-log or contact row is written.
C17_IneligibleShortCircuits ==
    lastTriage.kind = "ineligible" =>
        /\ lastTriage.calls = {"deduplicated", "classify_eligible"}
        /\ Len(leads) = lastTriage.leads0
        /\ Len(lead_logs) = lastTriage.lead_logs0
        /\ Len(agent_logs) = lastTriage.agent_logs0

\* C17 witness: a listing was found ineligible in a cycle that had already
\* persisted a Lead for an earlier listing.
C17_Witness ==
    /\ lastTriage.kind = "ineligible"
    /\ lastTriage.leads0 > 0
    /\ Len(leads) = lastTriage.leads0

\* C18 as stated: with a budget of 1 request per minute, two navigation
\* calls of the sequential loop to the same domain are at least 60 seconds
\* apart.
C18_NavigationsSpaced ==
    (rpm = 1 /\ navGap.valid) => navGap.nav >= Window

\* C18 amended: with a budget of 1 request per minute, the admissions
\* (returns of wait_if_needed) of two urls of the same domain processed one
\* after the other are at least 60 seconds apart, and each navigation call is
\* issued no earlier than the admission of its own url.
C18_AdmissionsSpaced ==
    /\ (rpm = 1 /\ navGap.valid) => navGap.adm >= Window
    /\ rpm = 1 =>
          \A d \in Domains : \A i \in 1..(Len(hist[d]) - 1) :
              hist[d][i + 1] - hist[d][i] >= Window
    /\ \A t \in Threads : lastNav[t].dom # "" => lastNav[t].at >= lastNav[t].adm

\* C18 witness: with rpm = 1 the second url of a domain was navigated to; its
\* admission came 60 seconds or more after the first one's, its navigation
\* call less than 60 seconds after the first navigation call.
C18_Witness ==
    /\ rpm = 1
    /\ navGap.valid
    /\ navGap.adm >= Window
    /\ navGap.nav < Window
    /\ done.slept

\* C19: a target url whose scheme is not http or https, or that has no host,
\* is skipped before any navigation on every extraction path: no page.goto is
\* issued for it and it yields no listing.
C19_InvalidUrlNeverNavigated ==
    ~validate_url(x_url) =>
        /\ x_gotos = 0
        /\ x_listings # "found"
        /\ x_pc # "raised"

\* the position of a target url in `urls`
UrlIndex(u) == CHOOSE i \in 1..Len(Urls) : Urls[i] = u

\* the target url whose extraction yields the listing l
Origin(l) ==
    CHOOSE u \in UrlSet :
        \/ \E i \in 1..Len(ScrapePage(u)) : ToListings(ScrapePage(u))[i] = l
        \/ \E i \in 1..Len(GenericPage(u)) : GenericPage(u)[i] = l

\* the listings of url u that triage is given, as a function of how the
\* extraction of u ended
ListingsFor(u) ==
    CASE extraction[u] \in {"pool_ok", "seq_ok"} -> ToListings(ScrapePage(u))
      [] extraction[u] \in {"seq_fallback", "generic_ok"} -> GenericPage(u)
      [] OTHER -> <<>>

\* C20: for fixed per-url extraction results, what a cycle persists does not
\* depend on the order in which the pool's workers run and complete: each
\* result is filed under its own url, the listings triaged for a url are the
\* result of that url, and urls are triaged in the order of `urls`, so that of
\* two copies of a listing the one accepted is the copy of the earlier url.
C20_ScheduleIndependent ==
    /\ \A u \in UrlSet : scraper_results[u].has =>
           /\ extraction[u] \in {"pool_ok", "pool_failed"}
           /\ scraper_results[u].raw_list =
                 IF extraction[u] = "pool_ok" THEN ScrapePage(u) ELSE <<>>
    /\ opc = "triage" => listings = ListingsFor(Urls[ui])
    /\ \A i, j \in 1..Len(passed) :
           i < j => UrlIndex(Origin(passed[i])) <= UrlIndex(Origin(passed[j]))
    /\ \A i \in 1..Len(passed) : UrlIndex(Origin(passed[i])) <= ui

\* C20 witness: two urls extracted by the pool carry a copy of the same
\* listing; the copy of the earlier url was accepted and the copy of the
\* later url skipped as its duplicate.
C20_Witness ==
    /\ extraction[U_ATHOME] = "pool_ok"
    /\ extraction[U_IMMOTOP] = "pool_ok"
    /\ \E i \in 1..Len(passed), j \in 1..Len(skipped) :
           /\ passed[i].text = skipped[j].text
           /\ Origin(passed[i]) = U_ATHOME
           /\ Origin(skipped[j]) = U_IMMOTOP

\* the threads that are writing to the database file of the lead store: the
\* pool workers inside save_to_db (the orchestrator's writes are atomic steps
\* of triage, which runs after the pool has been left)
StoreWriters == {u \in UrlSet : futures[u] = "saving"}

\* C21: during a cycle only the orchestrator writes to the persistent store:
\* no pool worker ever writes to it, so no two threads write at once, in
\* dry-run and in live mode alike.
C21_OnlyOrchestratorWrites ==
    StoreWriters = {}

\* the keywords of the heuristic that was called
PrivateKws == IF f_name = "agent_private_check" THEN private_keywords ELSE PRIVATE_KWS
AgentKws == IF f_name = "agent_private_check" THEN agent_keywords ELSE AGENT_KWS

\* the text contains a private-seller keyword / an agent keyword, whatever
\* the case it is written in
HasPrivateKw == \E kw \in PrivateKws : Contains(LowerText(f_arg.text), kw)
HasAgentKw == \E kw \in AgentKws : Contains(LowerText(f_arg.text), kw)

SellerTypeDone ==
    f_pc = "done" /\ f_name \in {"agent_private_check", "_detect_private_agent"}

\* C22: a text with a private-seller keyword and no agent keyword is
\* classified private with confidence >= 8, without any call of the language
\* model.
C22_PrivateKeywordOnly ==
    (SellerTypeDone /\ HasPrivateKw /\ ~HasAgentKw) =>
        /\ f_ret.is_private
        /\ f_ret.confidence >= 8
        /\ f_ret.llm_calls = 0

\* C22 witness: agent_private_check has classified a text that spells a
\* private keyword in capitals and has no agent keyword, while the language
\* model was unavailable.
C22_Witness ==
    /\ SellerTypeDone
    /\ f_name = "agent_private_check"
    /\ f_arg.text = <<"flat", "OWNER", "direct">>
    /\ ~f_arg.llm.ok
    /\ f_ret.is_private

\* C23: a text with both a private-seller keyword and an agent keyword is
\* never decided by keywords alone: the language model is always called for
\* it, by agent_private_check and by _detect_private_agent.
C23_BothKeywordsUseFallback ==
    (SellerTypeDone /\ HasPrivateKw /\ HasAgentKw) => f_ret.llm_calls >= 1

\* C24: for one backend, the call makes one request; an answer that parses
\* is returned without a retry; an answer that does not parse is followed by
\* exactly one retry whose prompt is the prompt plus "Strict JSON only."; the
\* retry's answer is returned if it parses and the failure is raised to the
\* caller otherwise; there are never more than two requests.
C24_OneRetryThenFail ==
    (f_pc = "done" /\ f_name = "_call_json_with_retry" /\ f_arg.provider # "auto") =>
        LET ans == f_arg.answers[f_arg.provider]
            reqs == f_ret.requests
        IN /\ Len(reqs) \in {1, 2}
           /\ \A i \in 1..Len(reqs) : reqs[i].backend = f_arg.provider
           /\ reqs[1].prompt = ThePrompt
           /\ ans[1] = "{\"eligible\": true}" =>
                 /\ Len(reqs) = 1
                 /\ f_ret.outcome = "returned"
                 /\ f_ret.value = [eligible |-> TRUE]
           /\ ans[1] = "not json" =>
                 /\ Len(reqs) = 2
                 /\ reqs[2].prompt = ThePrompt \o <<"Strict JSON only.">>
                 /\ f_ret.outcome =
                       IF ans[2] = "{\"eligible\": true}" THEN "returned" ELSE "raised"
           /\ ans[1] = "unavailable" => f_ret.outcome = "raised"

\* C24 witness: the first answer of ollama was not JSON, the retry's answer
\* was, and the call returned it after two requests.
C24_Witness ==
    /\ f_pc = "done"
    /\ f_name = "_call_json_with_retry"
    /\ f_arg.provider = "ollama"
    /\ f_arg.answers["ollama"][1] = "not json"
    /\ f_ret.outcome = "returned"
    /\ Len(f_ret.requests) = 2

\* C25: a failing write of a side-channel log (log_lead, log_agent_listing)
\* never aborts triage: the step in which it fails completes the listing,
\* Lead row included, and goes on to the next listing; a failing upsert_lead
\* is not swallowed: no Lead row is written and the exception leaves the
\* cycle loop.
C25_LogFailureSwallowed ==
    /\ [](lastTriage.kind = "upsert_failed" =>
             /\ abort = "upsert"
             /\ opc \in {"error", "raised"}
             /\ Len(leads) = lastTriage.leads0)
    /\ [][(lastTriage' # lastTriage /\ lastTriage'.log_failed) =>
             /\ lastTriage'.kind = "accepted"
             /\ Len(leads') = Len(leads) + 1
             /\ opc' = "triage"
             /\ li' = li + 1
             /\ abort' = abort]_vars

\* C25 witness: the log write of an accepted listing failed, its Lead row is
\* stored, and the loop over the listings ran to its end and went on to the
\* next url.
C25_Witness ==
    /\ lastTriage.kind = "accepted"
    /\ lastTriage.log_failed
    /\ Len(leads) = lastTriage.leads0 + 1
    /\ opc = "urls"
    /\ abort = ""

\* C26: the next cycle starts no earlier than the configured cycle cooldown
\* after the start of the cycle before it; a cycle shorter than the cooldown
\* is followed by a sleep of exactly the cooldown minus the cycle's duration;
\* and the cooling-down sleep is never longer than the configured cooldown.
C26_CadenceBounded ==
    (f_name = "cooling_down" /\ f_pc = "done") =>
        /\ f_ret.next_start >= f_arg.limits.cycle_cooldown_seconds
        /\ f_arg.elapsed < f_arg.limits.cycle_cooldown_seconds =>
               f_ret.sleep = f_arg.limits.cycle_cooldown_seconds - f_arg.elapsed
        /\ f_ret.sleep <= f_arg.limits.cycle_cooldown_seconds

\* the rows of the leads table with the priority_score column blanked
ScoreErased(rows) ==
    [i \in 1..Len(rows) |-> [rows[i] EXCEPT !.priority_score = 0]]

\* the tables and calls of an outcome, priority_score apart
ScoreBlind(out) == [out EXCEPT !.leads = ScoreErased(out.leads)]

\* C27: the priority score has no effect on acceptance or rejection.  Two
\* runs of the loop body over the same listing, from the same tables and with
\* the same answers of every collaborator, that differ only in the priority
\* score computed leave the same Lead row but for priority_score, the same
\* lead log status, the same agent log, the same contacts and make the same
\* calls; the score computed is the one stored; and every accepting step of
\* main is such a run.
C27_ScoreHasNoEffect ==
    /\ [](InTriage =>
            \A st \in StructChoices, rating \in Ratings, logOk \in BOOLEAN,
               sendOk \in BOOLEAN, p \in Scores, q \in Scores :
                LET det == Detection(Cur, st)
                    a == AcceptOutcome(Cur, det, rating, logOk, sendOk, p)
                    b == AcceptOutcome(Cur, det, rating, logOk, sendOk, q)
                IN /\ ScoreBlind(a) = ScoreBlind(b)
                   /\ a.leads[Len(a.leads)].priority_score = p
                   /\ a.leads[Len(a.leads)].status = "New")
    /\ [][(lastTriage' # lastTriage /\ lastTriage'.kind = "accepted") =>
             \E st \in StructChoices, rating \in Ratings, logOk \in BOOLEAN,
                sendOk \in BOOLEAN :
                 \A q \in Scores :
                     LET b == AcceptOutcome(Cur, Detection(Cur, st), rating,
                                            logOk, sendOk, q)
                     IN /\ ScoreErased(leads') = ScoreErased(b.leads)
                        /\ lead_logs' = b.lead_logs
                        /\ agent_logs' = b.agent_logs
                        /\ contacts' = b.contacts
                        /\ lastTriage'.calls = b.calls]_vars

\* C27 witness: the same listing text was accepted twice with two different
\* priority scores and both rows are stored with the same status.
C27_Witness ==
    /\ lastTriage.kind = "accepted"
    /\ \E i, j \in 1..Len(leads) :
           /\ i < j
           /\ leads[i].text = leads[j].text
           /\ leads[i].priority_score # leads[j].priority_score
           /\ leads[i].status = leads[j].status

\* C28: every record scrape or scrape_with_groups returns has its source
\* set and an absolute url: a relative link of the element is prefixed with
\* the url pieces of a site (it begins with "http"), and a missing link is
\* replaced by the url of the page.
C28_SourceAndAbsoluteUrl ==
    (f_name \in {"scrape", "scrape_with_groups"} /\ f_pc = "done") =>
        \A i \in 1..Len(f_ret.listings) :
            LET l == f_ret.listings[i]
            IN /\ l.rec.source # ""
               /\ StartsWithHttp(l.rec.url)
               /\ l.href = <<>> => l.rec.url = l.page

\* C29: in dry-run mode no email is sent: send_all never calls send_email,
\* never records a contact, every result it returns reports success false
\* (one result per address all the same), and the status main hands to
\* log_lead is "queued".
C29_DryRunSendsNothing ==
    (f_name = "send_all" /\ f_pc = "done"
        /\ (f_arg.config.present => f_arg.config.dry_run)) =>
        /\ f_ret.send_email = <<>>
        /\ f_ret.log_contact = <<>>
        /\ \A i \in 1..Len(f_ret.results) : ~f_ret.results[i].success
        /\ f_arg.config.present =>
               Len(f_ret.results) >= Len(f_arg.emails)
        /\ f_ret.status = "queued"

\* C29 witness: a dry run with a config, two addresses whose send would
\* have succeeded, and two "dry_run" results returned.
C29_Witness ==
    /\ f_name = "send_all" /\ f_pc = "done"
    /\ f_arg.config.present /\ f_arg.config.dry_run
    /\ Len(f_arg.emails) = 2
    /\ \A a \in Addresses : f_arg.smtp[a]
    /\ f_ret.results[1].reason = "dry_run"
    /\ f_ret.results[2].reason = "dry_run"
    /\ f_ret.status = "queued"

\* C30: every dispatch of a url that has a dedicated extractor, by a pool
\* worker or by the url loop, makes one wait_if_needed call keyed by the
\* url's netloc before its first scrape attempt, then at most 3 attempts
\* with sleeps of 1 s and then 2 s between them; and a url the pool has
\* extracted is not dispatched again by the url loop of the same cycle: it
\* is admitted once in the cycle, by the worker.
C30_AdmittedThenRetried ==
    DedicatedPath =>
        /\ Len(x_admits) <= 1
        /\ x_attempt >= 1 =>
              /\ Len(x_admits) = 1
              /\ x_admits[1].key = x_url.netloc
        /\ x_attempt <= 3
        /\ x_delays \in {<<>>, <<1>>, <<1, 2>>}
        /\ x_pc = "scrape" => Len(x_delays) = x_attempt
        /\ x_main \in {"pool_exit", "triage", "ended"} /\ x_admits # <<>> =>
               x_admits[1].by = "pool"

\* C30 witness: a pool worker was admitted once for www.athome.lu, its first
\* two attempts failed and were followed by sleeps of 1 s and 2 s, the third
\* found listings, and the url loop took them from scraper_results.
C30_Witness ==
    /\ DedicatedPath
    /\ x_admits = <<[by |-> "pool", key |-> "www.athome.lu"]>>
    /\ x_attempt = 3
    /\ x_delays = <<1, 2>>
    /\ x_listings = "found"
    /\ x_main = "triage"

\* the configured sources of a config without source_type, one after the
\* other: the site lists (of the configured countries, or start_urls when no
\* country has a site list), the marketplace template of every configured
\* country, the group lists of the configured countries
ConfiguredSources(config) ==
    LET sites == IF config.countries # <<>>
                    /\ config.target_sites_by_country # <<>>
                     THEN ExtendEach(<<>>, config.target_sites_by_country,
                                     config.countries)
                     ELSE config.start_urls
        market == IF config.facebook.marketplace_enabled
                     /\ config.facebook.marketplace_url_template # ""
                      THEN [i \in 1..Len(config.countries) |->
                               Format(config.facebook.marketplace_url_template,
                                      Slug(config.countries[i]))]
                      ELSE <<>>
        groups == ExtendEach(<<>>, config.facebook.groups_by_country,
                             config.countries)
    IN sites \o market \o groups

\* the position of the first occurrence of u in the sequence c
FirstOccurrence(c, u) ==
    CHOOSE k \in DOMAIN c : c[k] = u /\ \A m \in 1..(k - 1) : c[m] # u

\* r holds every element of c exactly once, in the order of first occurrence
OnceInOrder(r, c) ==
    /\ \A i, j \in DOMAIN r : i # j => r[i] # r[j]
    /\ {r[i] : i \in DOMAIN r} = {c[k] : k \in DOMAIN c}
    /\ \A i, j \in DOMAIN r :
           i < j => FirstOccurrence(c, r[i]) < FirstOccurrence(c, r[j])

\* C31: _build_target_urls returns every configured target url exactly once,
\* in the order of first occurrence over the site lists, then the marketplace
\* template urls, then the group urls; with source_type set it returns the
\* start_urls without duplicates in their original order.
C31_TargetsOnceInOrder ==
    (f_name = "_build_target_urls" /\ f_pc = "done") =>
        IF f_arg.source_type # ""
            THEN OnceInOrder(f_ret.urls, f_arg.start_urls)
            ELSE OnceInOrder(f_ret.urls, ConfiguredSources(f_arg))

\* C31 witness: two countries, a site list that repeats a url, a marketplace
\* template and a group list that repeats a site url: four urls come back,
\* the site url once and first.
C31_Witness ==
    /\ f_name = "_build_target_urls" /\ f_pc = "done"
    /\ f_arg.source_type = ""
    /\ f_arg.countries = <<"Luxembourg", "United Kingdom">>
    /\ f_arg.target_sites_by_country # <<>>
    /\ f_arg.target_sites_by_country["Luxembourg"] = <<<<"s1">>, <<"s1">>>>
    /\ f_arg.target_sites_by_country["United Kingdom"] = <<>>
    /\ f_arg.facebook.marketplace_enabled
    /\ f_arg.facebook.marketplace_url_template = "fb/{country}"
    /\ f_arg.facebook.groups_by_country # <<>>
    /\ f_arg.facebook.groups_by_country["Luxembourg"] = <<<<"g1">>, <<"s1">>>>
    /\ f_ret.urls = <<<<"s1">>, <<"fb", "luxembourg">>,
                      <<"fb", "unitedkingdom">>, <<"g1">>>>

\* C32: a text with neither a private-seller keyword nor an agent keyword is
\* not decided by a default: the language model is called for it, by
\* agent_private_check and by _detect_private_agent.
C32_NoKeywordUsesFallback ==
    (SellerTypeDone /\ ~HasPrivateKw /\ ~HasAgentKw) => f_ret.llm_calls >= 1

\* the attempt whose answer yields a classification (the try block ends
\* without an exception)
Classifies(raw) ==
    raw \in {"{\"is_private\": true, \"confidence\": 7}",
             "{\"is_private\": false, \"confidence\": 4}",
             "{\"is_private\": true}"}

\* C33: the fallback makes at most 3 attempts, sleeps 1 s, 2 s and 4 s after
\* the first, second and third failed attempt, returns the result of the
\* first attempt that yields a classification without a further attempt,
\* and after three failures returns is_private false with confidence 0
\* instead of raising.
C33_ThreeAttemptsThenDefault ==
    (f_name = "llm_fallback" /\ f_pc = "done") =>
        LET ans == f_arg.answers
            good == {k \in 1..3 : Classifies(ans[k])}
            expected == <<1, 2, 4>>
        IN /\ f_ret.llm_calls \in 1..3
           /\ ~f_ret.raised
           /\ good # {} =>
                 LET k == CHOOSE i \in good : \A j \in good : i <= j
                 IN /\ f_ret.llm_calls = k
                    /\ f_ret.sleeps = SubSeq(expected, 1, k - 1)
                    /\ f_ret.reason = "LLM classification"
                    /\ f_ret.is_private =
                           (ans[k] # "{\"is_private\": false, \"confidence\": 4}")
                    /\ f_ret.confidence =
                           (CASE ans[k] = "{\"is_private\": true, \"confidence\": 7}" -> 7
                              [] ans[k] = "{\"is_private\": false, \"confidence\": 4}" -> 4
                              [] OTHER -> 0)
           /\ good = {} =>
                 /\ f_ret.llm_calls = 3
                 /\ f_ret.sleeps = expected
                 /\ ~f_ret.is_private
                 /\ f_ret.confidence = 0
                 /\ f_ret.reason = "LLM classification failed"

\* C33 witness: the request failed three times (no answer, no JSON, a
\* confidence that is not a number); the check slept 1, 2 and 4 seconds and
\* returned the default.
C33_Witness ==
    /\ f_name = "llm_fallback" /\ f_pc = "done"
    /\ f_arg.answers = <<"unavailable", "not json", "{\"confidence\": \"high\"}">>
    /\ f_ret.llm_calls = 3
    /\ f_ret.sleeps = <<1, 2, 4>>
    /\ ~f_ret.is_private /\ f_ret.confidence = 0

\* the place of a probe in the stated priority order: reject/necessary-only
\* by text, accept by text, css hooks, nested frames
ProbeRank(p) ==
    CASE p.by = "text" /\ p.clicks = "reject_text" -> 1
      [] p.by = "text" /\ p.clicks = "accept_text" -> 2
      [] p.by = "css" -> 3
      [] p.by = "frame" -> 4
      [] OTHER -> 5

\* C34: the dismissal runs its probes in the stated priority order, stops at
\* the first probe that clicks, and no extractor clicks an accept affordance
\* while a reject/necessary-only affordance matching by text is on the page.
C34_RejectPreferred ==
    (f_name = "accept_consent" /\ f_pc = "done") =>
        /\ \A i, j \in DOMAIN f_ret.tried :
               i < j => ProbeRank(f_ret.tried[i]) <= ProbeRank(f_ret.tried[j])
        /\ \A i \in DOMAIN f_ret.tried :
               f_ret.tried[i].clicks \in f_arg.page => i = Len(f_ret.tried)
        /\ "reject_text" \in f_arg.page =>
               f_ret.clicked \notin {"accept_text", "accept_css"}

\* C35: a session scrape opened because no page was supplied is closed by
\* the same call on every exit path, normal or exceptional, and the
\* scraper's handles are cleared; a page the caller supplied is never closed
\* by scrape: nothing a worker's scrape call started is still running when
\* the call has ended.
C35_SessionClosedByItsCall ==
    (f_name = "scrape_session" /\ f_pc = "done") =>
        /\ f_ret.own_browser =>
              /\ f_ret.running = {}
              /\ f_ret.handles = "none"
        /\ ~f_ret.own_browser => ~f_ret.page_closed

\* the scores of the rows of a list, in the order of the list
ScoreKeys(rows) ==
    [k \in DOMAIN rows |-> <<rows[k].priority_score, rows[k].rating>>]

\* the table with its rows inserted in the order p
Reinserted(table, p) ==
    [k \in DOMAIN table |->
        [id |-> k, priority_score |-> table[p[k]].priority_score,
         rating |-> table[p[k]].rating,
         airbnb_viable |-> table[p[k]].airbnb_viable]]

C37_FirstOccurrenceInPageOrder ==
    (f_name = "extract_listings" /\ f_pc = "done") =>
        LET out == f_ret.listings
            page == IF f_ret.parsed_html THEN f_arg.html ELSE f_arg.live
            texts == [k \in DOMAIN page |-> page[k].text]
        IN /\ \A i, j \in DOMAIN out : i # j => out[i].text # out[j].text
           /\ \A i \in DOMAIN out :
                  /\ \E k \in DOMAIN texts : texts[k] = out[i].text
                  /\ out[i].url =
                         ListingUrl("http://example.com",
                                    page[FirstOccurrence(texts, out[i].text)].href)
           /\ \A i, j \in DOMAIN out :
                  i < j => FirstOccurrence(texts, out[i].text)
                               < FirstOccurrence(texts, out[j].text)
           /\ f_ret.parsed_html => f_arg.live = <<>>

\* C37 witness: the live query returned the same text twice, with and then
\* without a link; one entry came back, with the first element's link, and
\* the HTML was not parsed.
C37_Witness ==
    /\ f_name = "extract_listings" /\ f_pc = "done"
    /\ f_arg.live = <<[text |-> "Listing B", href |-> "/item"],
                      [text |-> "Listing B", href |-> ""]>>
    /\ f_arg.html # <<>>
    /\ Len(f_ret.listings) = 1
    /\ f_ret.listings[1].url = <<"http://example.com", "/item">>
    /\ ~f_ret.parsed_html

\* C38: every wait_if_needed call eventually returns, whatever the
\* interleaving of the callers: a call that sleeps sleeps once, for at most
\* 60 seconds, and is admitted right after the sleep without testing the
\* budget again; no caller waits for the lock or for its admission forever.
C38_EveryCallReturns ==
    /\ [](\A t \in Threads :
              pc[t] = "sleeping" =>
                  /\ wake[t] - clock <= Window
                  /\ ~call[t].slept)
    /\ [][\A t \in Threads :
              /\ pc[t] = "sleeping" /\ pc'[t] # "sleeping" => pc'[t] = "retrim"
              /\ pc[t] = "retrim" /\ pc'[t] # "retrim" => pc'[t] = "append"
              /\ pc[t] = "append" /\ pc'[t] # "append" =>
                     /\ pc'[t] = "idle"
                     /\ Len(hist'[dom[t]]) = Len(hist[dom[t]]) + 1]_vars
    /\ \A t \in Threads : (pc[t] # "idle") ~> (pc[t] = "idle")

\* C38 witness: a call found the budget used up while the other thread was
\* waiting for the lock, slept a whole window, and was admitted.
C38_Witness ==
    /\ done.valid /\ done.slept /\ done.over
    /\ done.at >= done.earliest + Window
    /\ \E t \in Threads : pc[t] = "wait_lock"

\* the last call of deduplicated asked the store for a fingerprint that
\* lead_logs held, and the query failed
DedupQueryFailed ==
    /\ lastDedup.valid /\ lastTriage.valid
    /\ lastDedup.queried
    /\ ~lastDedup.seen
    /\ \E i \in 1..lastTriage.lead_logs0 :
           lead_logs[i].listing_hash = lastDedup.h

\* C40: deduplication fails open: when the store cannot be queried,
\* seen_listing_hash answers False without raising, deduplicated reports the
\* listing as new and adds its fingerprint to the session set (the set the
\* call leaves behind is the set it found plus the fingerprint), and the
\* triage of the listing goes on.
C40_DedupFailsOpen ==
    DedupQueryFailed =>
        /\ ~lastDedup.dup
        /\ lastDedup.h \notin lastDedup.before
        /\ lastDedup.after = lastDedup.before \cup {lastDedup.h}
        /\ lastTriage.kind # "duplicate"
        /\ "classify_eligible" \in lastTriage.calls

\* C40 witness: the store held the fingerprint of a listing, the query for
\* it failed, and the listing was triaged again and became one more Lead.
C40_Witness ==
    /\ DedupQueryFailed
    /\ lastTriage.kind = "accepted"
    /\ Len(leads) = lastTriage.leads0 + 1
    /\ lastTriage.leads0 >= 1

\* the fingerprint of the last deduplicated listing was in lead_logs when
\* the listing was triaged
LoggedBefore ==
    /\ lastDedup.valid /\ lastTriage.valid
    /\ \E i \in DOMAIN lead_logs :
           /\ i <= lastTriage.lead_logs0
           /\ lead_logs[i].listing_hash = lastDedup.h

\* C39: reset_db deletes every Lead and every contact and leaves lead_logs
\* and the agent log as they were; no step, the reset included, removes or
\* changes a row of the two logs; so a listing whose fingerprint was logged
\* earlier is reported as a duplicate, reset or not, and adds no Lead.
C39_ResetKeepsSeenHistory ==
    /\ [][ResetDb => /\ leads' = <<>>
                     /\ contacts' = {}
                     /\ lead_logs' = lead_logs
                     /\ agent_logs' = agent_logs]_vars
    /\ [][/\ Len(lead_logs') >= Len(lead_logs)
          /\ SubSeq(lead_logs', 1, Len(lead_logs)) = lead_logs
          /\ Len(agent_logs') >= Len(agent_logs)
          /\ SubSeq(agent_logs', 1, Len(agent_logs)) = agent_logs]_vars
    /\ [](LoggedBefore =>
             /\ lastDedup.dup
             /\ lastTriage.kind = "duplicate"
             /\ lastTriage.calls = {"deduplicated"}
             /\ Len(leads) <= lastTriage.leads0)

\* C39 witness: a listing was logged and stored as a Lead, the database was
\* reset (the leads table was empty when the listing came back, the log was
\* not), and the store lookup reported the listing as a duplicate.
C39_Witness ==
    /\ LoggedBefore
    /\ lastDedup.seen
    /\ ~lastDedup.inSession
    /\ lastTriage.kind = "duplicate"
    /\ lastTriage.leads0 = 0
    /\ leads = <<>>
    /\ contacts = {}

============================================================================
